---------------------------- MODULE Spec2Model ----------------------------
(***************************************************************************)
(* State-machine model of the 5x5 number game: the Logic object            *)
(* (src/logic.py) driven through its public operations.                    *)
(*                                                                         *)
(* Every method of Logic is an operator from the object's state (a record  *)
(* `self` holding the fields of Logic.__init__) to the state after the     *)
(* call, together with the value returned.  The actions apply these        *)
(* operators to the live object, whose fields are the VARIABLES.           *)
(*                                                                         *)
(* Specifications: Spec drives the object through its operations;         *)
(* SpecPersist adds the save file (save, load, set_state); SpecHistory      *)
(* plays one long game that fills the undo history; SpecScore runs the     *)
(* handlers of InterfaceGUI (src/gui.py) that set time limits, place in    *)
(* Level 1 and handle its completion; SpecGui is a session at the window   *)
(* (new game, placements in both levels with their completion handling,    *)
(* undo, clearings) with the level timer's tick as an action of its own;   *)
(* SpecSaved is such a session with on_save and on_load; SpecWalk plays    *)
(* Level 1 in a corner of the board, where the path can be shut in.        *)
(*                                                                         *)
(* Python values: None of an optional field is the empty sequence <<>> and *)
(* a present value v is <<v>>; the coordinate tuple (r, c) is <<r, c>> and *)
(* the list [r, c] is <<"list", r, c>>; a dict key n of type int is        *)
(* <<"int", n>> and the key str(n) is <<"str", n>>.                        *)
(***************************************************************************)
EXTENDS Integers, Sequences, FiniteSets, TLC

VARIABLES
    board,                       \* Logic.board: 5x5 list of lists
    ring,                        \* Logic.ring: 7x7 list of lists
    score,                       \* Logic.score
    level,                       \* Logic.level
    player_name,                 \* Logic.player_name (<<>> is None)
    correct_moves,               \* Logic.correct_moves
    invalid_moves,               \* Logic.invalid_moves
    move_history,                \* Logic.move_history: list of (tag, snapshot)
    level1_completed,            \* Logic.level1_completed
    level1_snapshot,             \* Logic.level1_snapshot (<<>> is None)
    level2_completed,            \* Logic.level2_completed
    level2_available_positions,  \* Logic.level2_available_positions: dict
    current_outer_number,        \* Logic.current_outer_number
    time_limits,                 \* Logic.time_limits: dict level -> limit
    time_bonus_last,             \* Logic.time_bonus_last
    last_call,                   \* the operation called last and what it returned
    saved_file,                  \* SavedState.json (<<>> while there is no file)
    completed_games,             \* CompletedGames.json: its "Players" dict
    _timer_job,                  \* InterfaceGUI._timer_job (<<>> is None)
    _level_start_time,           \* InterfaceGUI._level_start_time (<<>> is None)
    after_jobs                   \* the callbacks app.after has pending in Tk

fields == <<board, ring, score, level, player_name, correct_moves,
            invalid_moves, move_history, level1_completed, level1_snapshot,
            level2_completed, level2_available_positions,
            current_outer_number, time_limits, time_bonus_last>>

\* The files on disk.
files == <<saved_file, completed_games>>

\* The level timer of the window.
timer == <<_timer_job, _level_start_time, after_jobs>>

vars == <<fields, last_call, files, timer>>

-----------------------------------------------------------------------------
(* Bounds of the exploration *)

\* Level-1 placements are explored freely while the board's maximum is at
\* most MaxFree; beyond it only along the boards of Tours.
MaxFree == 2

\* clear_level1_* is explored while correct_moves is at most MaxCarry (the
\* counter survives the clearing, so it would grow without bound).
MaxCarry == 1

\* In Level 2 a snapshot is pushed only while the history is shorter than this.
MaxL2Hist == 3

\* The game is saved while the history has at most MaxSaveHist entries.
MaxSaveHist == 1

\* Once a file exists, loads and placements are explored while the history
\* has at most MaxLoadHist entries.
MaxLoadHist == 2

\* Time limits are set, and placements on an occupied cell tried, once at
\* most MaxLeft cells of the board are empty.
MaxLeft == 1

\* Rejected placements are counted up to MaxInvalid.
MaxInvalid == 1

\* New games are started while the session has completed fewer than
\* MaxCompletions games.
MaxCompletions == 1

\* In the long Level-2 game, numbers are placed on the ring while
\* correct_moves is below this.
MaxHistPlacements == 26

\* In the walks of Level 1, values are placed up to this one.
MaxPath == 4

-----------------------------------------------------------------------------
(* Program constants and Python values *)

MAX_UNDO_HISTORY == 50

None == <<>>

Some(v) == <<v>>

IntKey(n) == <<"int", n>>

StrKey(n) == <<"str", n>>

Rows5 == 0 .. 4

Rows7 == 0 .. 6

EmptyBoard == [r \in Rows5 |-> [c \in Rows5 |-> 0]]

EmptyRing == [r \in Rows7 |-> [c \in Rows7 |-> 0]]

DefaultTimeLimits == [k \in {IntKey(1), IntKey(2), IntKey(3)} |-> Some(60)]

EmptyDict == [k \in {} |-> <<>>]

\* dict.get(key, default)
DictGet(d, key, default) == IF key \in DOMAIN d THEN d[key] ELSE default

\* x in list
InList(x, list) == \E i \in 1 .. Len(list) : list[i] = x

\* abs() left out: the signed difference is compared.
AbsSigned(n) == n

Abs(n) == IF n < 0 THEN -n ELSE n

\* max(list) of a list indexed 0 .. n
RECURSIVE ListMax(_, _)
ListMax(list, n) ==
    IF n = 0 THEN list[0]
    ELSE LET m == ListMax(list, n - 1)
         IN  IF list[n] > m THEN list[n] ELSE m

\* The live object as a record of its fields.
Self ==
    [board |-> board, ring |-> ring, score |-> score, level |-> level,
     player_name |-> player_name, correct_moves |-> correct_moves,
     invalid_moves |-> invalid_moves, move_history |-> move_history,
     level1_completed |-> level1_completed,
     level1_snapshot |-> level1_snapshot,
     level2_completed |-> level2_completed,
     level2_available_positions |-> level2_available_positions,
     current_outer_number |-> current_outer_number,
     time_limits |-> time_limits, time_bonus_last |-> time_bonus_last]

\* The live object becomes s.
Become(s) ==
    /\ board' = s.board
    /\ ring' = s.ring
    /\ score' = s.score
    /\ level' = s.level
    /\ player_name' = s.player_name
    /\ correct_moves' = s.correct_moves
    /\ invalid_moves' = s.invalid_moves
    /\ move_history' = s.move_history
    /\ level1_completed' = s.level1_completed
    /\ level1_snapshot' = s.level1_snapshot
    /\ level2_completed' = s.level2_completed
    /\ level2_available_positions' = s.level2_available_positions
    /\ current_outer_number' = s.current_outer_number
    /\ time_limits' = s.time_limits
    /\ time_bonus_last' = s.time_bonus_last

\* The live object is s.
Holds(s) ==
    /\ board = s.board
    /\ ring = s.ring
    /\ score = s.score
    /\ level = s.level
    /\ player_name = s.player_name
    /\ correct_moves = s.correct_moves
    /\ invalid_moves = s.invalid_moves
    /\ move_history = s.move_history
    /\ level1_completed = s.level1_completed
    /\ level1_snapshot = s.level1_snapshot
    /\ level2_completed = s.level2_completed
    /\ level2_available_positions = s.level2_available_positions
    /\ current_outer_number = s.current_outer_number
    /\ time_limits = s.time_limits
    /\ time_bonus_last = s.time_bonus_last

\* Logic.__init__
LogicInit ==
    [board |-> EmptyBoard, ring |-> EmptyRing, score |-> 0, level |-> 1,
     player_name |-> None, correct_moves |-> 0, invalid_moves |-> 0,
     move_history |-> <<>>, level1_completed |-> FALSE,
     level1_snapshot |-> None, level2_completed |-> FALSE,
     level2_available_positions |-> EmptyDict, current_outer_number |-> 2,
     time_limits |-> DefaultTimeLimits, time_bonus_last |-> 0]

-----------------------------------------------------------------------------
(* Timer config and scoring; a time in seconds is counted in hundredths *)

\* dict[key] = value
DictSet(d, key, value) ==
    [k \in DOMAIN d \cup {key} |-> IF k = key THEN value ELSE d[k]]

\* max(0, int(seconds))
set_time_limit(self, lvl, seconds) ==
    IF seconds = None
    THEN [self EXCEPT !.time_limits = DictSet(@, IntKey(lvl), None)]
    ELSE [self EXCEPT
            !.time_limits =
                DictSet(@, IntKey(lvl),
                        Some(IF seconds[1] < 0 THEN 0 ELSE seconds[1]))]

get_time_limit(self, lvl) == DictGet(self.time_limits, IntKey(lvl), None)

\* The hundredths are cut off.
RoundDown(hundredths) == hundredths \div 100

\* int(round(x)) of a float x >= 0 with two decimals: the nearest integer,
\* and the even one of the two when x is halfway between them.
Round(hundredths) ==
    LET whole == hundredths \div 100
        part == hundredths % 100
    IN  IF part < 50 THEN whole
        ELSE IF part > 50 THEN whole + 1
        ELSE IF whole % 2 = 0 THEN whole ELSE whole + 1

\* Returns the object after the call and the delta returned.
apply_time_scoring(self, lvl, elapsed_seconds) ==
    LET limit == get_time_limit(self, lvl)
    IN  IF limit = None
        THEN [self |-> [self EXCEPT !.time_bonus_last = 0], ret |-> 0]
        ELSE LET elapsed_int == Round(elapsed_seconds)
                 delta == limit[1] - elapsed_int
             IN  [self |-> [self EXCEPT !.score = @ + delta,
                                        !.time_bonus_last = delta],
                  ret |-> delta]

-----------------------------------------------------------------------------
(* Timer helpers of InterfaceGUI.  tk is the timer of the window: job is   *)
(* _timer_job, started is _level_start_time, pending are the callbacks     *)
(* app.after has scheduled and Tk has neither run nor cancelled            *)

\* What datetime.now() gives when a level timer is started.
StartTime == "started"

\* The identifiers app.after returns.  Tk never gives one a second time; the
\* one given is the least that is neither pending nor held in _timer_job.
JobIds == 1 .. 4

NewJob(tk) ==
    CHOOSE id \in JobIds \ (tk.pending \cup {tk.job[i] : i \in DOMAIN tk.job}) :
        \A other \in JobIds \ (tk.pending \cup {tk.job[i] : i \in DOMAIN tk.job}) :
            id <= other

\* InterfaceGUI.__init__
TimerInit == [job |-> None, started |-> None, pending |-> {}]

\* The live timer as a record.
Tk == [job |-> _timer_job, started |-> _level_start_time, pending |-> after_jobs]

\* The live timer becomes tk.
TimerBecomes(tk) ==
    /\ _timer_job' = tk.job
    /\ _level_start_time' = tk.started
    /\ after_jobs' = tk.pending

\* The live timer is tk.
TimerIs(tk) ==
    /\ _timer_job = tk.job
    /\ _level_start_time = tk.started
    /\ after_jobs = tk.pending

\* after_cancel of a callback that is not pending does nothing.
_stop_level_timer(tk) ==
    IF tk.job # None
    THEN [tk EXCEPT !.pending = @ \ {tk.job[1]}, !.job = None]
    ELSE tk

\* The label is set from the level, its limit and the clock, and the next
\* tick is scheduled.  Gives the object and the timer after the call.
_tick_timer(self, tk) ==
    IF tk.started = None THEN [self |-> self, tk |-> tk]
    ELSE [self |-> self,
          tk |-> [tk EXCEPT !.pending = @ \cup {NewJob(tk)},
                            !.job = Some(NewJob(tk))]]

\* The pending tick is not cancelled.
_start_level_timer_no_stop(self, tk) ==
    _tick_timer(self, [tk EXCEPT !.started = Some(StartTime)]).tk

_start_level_timer(self, tk) ==
    _tick_timer(self, _stop_level_timer([tk EXCEPT !.started = Some(StartTime)])).tk

\* The timer after __init__, which ends with new_game_level1.
InitTimer == TimerIs(_start_level_timer(LogicInit, TimerInit))

-----------------------------------------------------------------------------
(* Utility helpers *)

\* The maximum of the first row only.
previous_input_first_row(self) == ListMax(self.board[0], 4)

\* max(max(row) for row in self.board)
previous_input(self) ==
    ListMax([r \in Rows5 |-> ListMax(self.board[r], 4)], 4)

\* The first cell in row-major order holding target, or None.
find_position(self, target) ==
    LET hits == {p \in Rows5 \X Rows5 : self.board[p[1]][p[2]] = target}
    IN  IF hits = {} THEN None
        ELSE CHOOSE p \in hits :
                \A q \in hits : p[1] < q[1] \/ (p[1] = q[1] /\ p[2] <= q[2])

-----------------------------------------------------------------------------
(* Undo history *)

_snapshot_state(self) ==
    [board |-> self.board, score |-> self.score, level |-> self.level,
     ring |-> self.ring, level1_completed |-> self.level1_completed,
     level1_snapshot |-> self.level1_snapshot,
     level2_completed |-> self.level2_completed,
     level2_available_positions |-> self.level2_available_positions,
     current_outer_number |-> self.current_outer_number,
     correct_moves |-> self.correct_moves,
     invalid_moves |-> self.invalid_moves,
     player_name |-> self.player_name,
     time_limits |-> self.time_limits,
     time_bonus_last |-> self.time_bonus_last]

_restore_snapshot(self, snap) ==
    [self EXCEPT
        !.board = snap.board,
        !.score = snap.score,
        !.level = snap.level,
        !.ring = snap.ring,
        !.level1_completed = snap.level1_completed,
        !.level1_snapshot = snap.level1_snapshot,
        !.level2_completed = snap.level2_completed,
        !.level2_available_positions = snap.level2_available_positions,
        !.current_outer_number = snap.current_outer_number,
        !.correct_moves = snap.correct_moves,
        !.invalid_moves = snap.invalid_moves,
        !.player_name = snap.player_name,
        !.time_limits = snap.time_limits,
        !.time_bonus_last = snap.time_bonus_last]

\* The oldest entry is dropped only once the history is over its capacity.
_save_to_history_evicts_late(self, action_type) ==
    LET kept == IF Len(self.move_history) > MAX_UNDO_HISTORY
                THEN Tail(self.move_history)
                ELSE self.move_history
    IN  [self EXCEPT
            !.move_history = Append(kept, <<action_type, _snapshot_state(self)>>)]

_save_to_history(self, action_type) ==
    LET kept == IF Len(self.move_history) >= MAX_UNDO_HISTORY
                THEN Tail(self.move_history)
                ELSE self.move_history
    IN  [self EXCEPT
            !.move_history = Append(kept, <<action_type, _snapshot_state(self)>>)]

can_undo(self) == Len(self.move_history) > 1

\* The state under the top entry is restored, and the top entry stays.
undo_last_move_keeps_entry(self) ==
    IF self.level1_completed /\ self.level = 2 /\ Len(self.move_history) <= 1
    THEN [self |-> self, ret |-> FALSE]
    ELSE IF Len(self.move_history) < 2
    THEN [self |-> self, ret |-> FALSE]
    ELSE LET prev_state == self.move_history[Len(self.move_history) - 1][2]
         IN  [self |-> _restore_snapshot(self, prev_state), ret |-> TRUE]

\* Returns the object after the call and the value returned.
undo_last_move(self) ==
    IF self.level1_completed /\ self.level = 2 /\ Len(self.move_history) <= 1
    THEN [self |-> self, ret |-> FALSE]
    ELSE IF Len(self.move_history) < 2
    THEN [self |-> self, ret |-> FALSE]
    ELSE LET popped == SubSeq(self.move_history, 1, Len(self.move_history) - 1)
             prev_state == popped[Len(popped)][2]
         IN  [self |-> _restore_snapshot([self EXCEPT !.move_history = popped],
                                         prev_state),
              ret |-> TRUE]

-----------------------------------------------------------------------------
(* Level transitions / resets; r, c are the values random.randint returned *)

\* The ring is left as it is.
reset_new_game_level1_keeps_ring(self, r, c) ==
    _save_to_history(
        [self EXCEPT
            !.board = [EmptyBoard EXCEPT ![r][c] = 1],
            !.score = 0,
            !.level = 1,
            !.correct_moves = 0,
            !.invalid_moves = 0,
            !.move_history = <<>>,
            !.level1_completed = FALSE,
            !.level1_snapshot = None,
            !.level2_completed = FALSE,
            !.level2_available_positions = EmptyDict,
            !.current_outer_number = 2],
        "initial")

reset_new_game_level1(self, r, c) ==
    _save_to_history(
        [self EXCEPT
            !.board = [EmptyBoard EXCEPT ![r][c] = 1],
            !.ring = EmptyRing,
            !.score = 0,
            !.level = 1,
            !.correct_moves = 0,
            !.invalid_moves = 0,
            !.move_history = <<>>,
            !.level1_completed = FALSE,
            !.level1_snapshot = None,
            !.level2_completed = FALSE,
            !.level2_available_positions = EmptyDict,
            !.current_outer_number = 2],
        "initial")

\* The 1 is placed on the random cell wherever it was.
clear_level1_keep_one_reseeds(self, r, c) ==
    _save_to_history(
        [self EXCEPT
            !.board = [EmptyBoard EXCEPT ![r][c] = 1],
            !.ring = EmptyRing,
            !.score = 0,
            !.level = 1,
            !.move_history = <<>>,
            !.level1_completed = FALSE,
            !.level1_snapshot = None,
            !.level2_completed = FALSE],
        "initial")

clear_level1_keep_one(self, r, c) ==
    LET pos == find_position(self, 1)
        at == IF pos = None THEN <<r, c>> ELSE pos
    IN  _save_to_history(
            [self EXCEPT
                !.board = [EmptyBoard EXCEPT ![at[1]][at[2]] = 1],
                !.ring = EmptyRing,
                !.score = 0,
                !.level = 1,
                !.move_history = <<>>,
                !.level1_completed = FALSE,
                !.level1_snapshot = None,
                !.level2_completed = FALSE],
            "initial")

\* The history is not cleared before the baseline is pushed.
clear_level1_random_one_keeps_history(self, r, c) ==
    _save_to_history(
        [self EXCEPT
            !.board = [EmptyBoard EXCEPT ![r][c] = 1],
            !.ring = EmptyRing,
            !.score = 0,
            !.level = 1,
            !.level1_completed = FALSE,
            !.level1_snapshot = None,
            !.level2_completed = FALSE],
        "initial")

clear_level1_random_one(self, r, c) ==
    _save_to_history(
        [self EXCEPT
            !.board = [EmptyBoard EXCEPT ![r][c] = 1],
            !.ring = EmptyRing,
            !.score = 0,
            !.level = 1,
            !.move_history = <<>>,
            !.level1_completed = FALSE,
            !.level1_snapshot = None,
            !.level2_completed = FALSE],
        "initial")

-----------------------------------------------------------------------------
(* Level 1 move rules *)

\* The cell is written before the adjacency test, and a rejection leaves it.
make_move_level1_writes_first(self, r, c, value) ==
    LET prev_value == previous_input(self)
        prev_pos == find_position(self, prev_value)
        rejected == [self |-> self, ret |-> FALSE]
    IN  IF ~(0 <= r /\ r < 5 /\ 0 <= c /\ c < 5) THEN rejected
        ELSE IF value # prev_value + 1 THEN rejected
        ELSE IF prev_pos = None THEN rejected
        ELSE IF self.board[r][c] # 0 THEN rejected
        ELSE IF Abs(r - prev_pos[1]) > 1 \/ Abs(c - prev_pos[2]) > 1
        THEN [self |-> [self EXCEPT !.board[r][c] = value], ret |-> FALSE]
        ELSE LET diagonal == Abs(r - prev_pos[1]) = 1 /\ Abs(c - prev_pos[2]) = 1
                 placed == [self EXCEPT
                               !.board[r][c] = value,
                               !.score = IF diagonal THEN @ + 1 ELSE @,
                               !.correct_moves = @ + 1]
             IN  [self |-> _save_to_history(placed, "move"), ret |-> TRUE]

\* The bonus is given for a step that moves in a row or in a column (or
\* instead of and).
make_move_level1_scores_any_step(self, r, c, value) ==
    LET prev_value == previous_input(self)
        prev_pos == find_position(self, prev_value)
        rejected == [self |-> self, ret |-> FALSE]
    IN  IF ~(0 <= r /\ r < 5 /\ 0 <= c /\ c < 5) THEN rejected
        ELSE IF value # prev_value + 1 THEN rejected
        ELSE IF prev_pos = None THEN rejected
        ELSE IF self.board[r][c] # 0 THEN rejected
        ELSE IF Abs(r - prev_pos[1]) > 1 \/ Abs(c - prev_pos[2]) > 1 THEN rejected
        ELSE LET diagonal == Abs(r - prev_pos[1]) = 1 \/ Abs(c - prev_pos[2]) = 1
                 placed == [self EXCEPT
                               !.board[r][c] = value,
                               !.score = IF diagonal THEN @ + 1 ELSE @,
                               !.correct_moves = @ + 1]
             IN  [self |-> _save_to_history(placed, "move"), ret |-> TRUE]

\* A cell two steps away from the previous value is accepted.
make_move_level1_two_steps(self, r, c, value) ==
    LET prev_value == previous_input(self)
        prev_pos == find_position(self, prev_value)
        rejected == [self |-> self, ret |-> FALSE]
    IN  IF ~(0 <= r /\ r < 5 /\ 0 <= c /\ c < 5) THEN rejected
        ELSE IF value # prev_value + 1 THEN rejected
        ELSE IF prev_pos = None THEN rejected
        ELSE IF self.board[r][c] # 0 THEN rejected
        ELSE IF Abs(r - prev_pos[1]) > 2 \/ Abs(c - prev_pos[2]) > 2 THEN rejected
        ELSE LET diagonal == Abs(r - prev_pos[1]) = 1 /\ Abs(c - prev_pos[2]) = 1
                 placed == [self EXCEPT
                               !.board[r][c] = value,
                               !.score = IF diagonal THEN @ + 1 ELSE @,
                               !.correct_moves = @ + 1]
             IN  [self |-> _save_to_history(placed, "move"), ret |-> TRUE]

\* The accepted placement pushes no snapshot.
make_move_level1_no_snapshot(self, r, c, value) ==
    LET prev_value == previous_input(self)
        prev_pos == find_position(self, prev_value)
        rejected == [self |-> self, ret |-> FALSE]
    IN  IF ~(0 <= r /\ r < 5 /\ 0 <= c /\ c < 5) THEN rejected
        ELSE IF value # prev_value + 1 THEN rejected
        ELSE IF prev_pos = None THEN rejected
        ELSE IF self.board[r][c] # 0 THEN rejected
        ELSE IF Abs(r - prev_pos[1]) > 1 \/ Abs(c - prev_pos[2]) > 1 THEN rejected
        ELSE LET diagonal == Abs(r - prev_pos[1]) = 1 /\ Abs(c - prev_pos[2]) = 1
                 placed == [self EXCEPT
                               !.board[r][c] = value,
                               !.score = IF diagonal THEN @ + 1 ELSE @,
                               !.correct_moves = @ + 1]
             IN  [self |-> placed, ret |-> TRUE]

make_move_level1(self, r, c, value) ==
    LET prev_value == previous_input(self)
        prev_pos == find_position(self, prev_value)
        rejected == [self |-> self, ret |-> FALSE]
    IN  IF ~(0 <= r /\ r < 5 /\ 0 <= c /\ c < 5) THEN rejected
        ELSE IF value # prev_value + 1 THEN rejected
        ELSE IF prev_pos = None THEN rejected
        ELSE IF self.board[r][c] # 0 THEN rejected
        ELSE IF Abs(r - prev_pos[1]) > 1 \/ Abs(c - prev_pos[2]) > 1 THEN rejected
        ELSE LET diagonal == Abs(r - prev_pos[1]) = 1 /\ Abs(c - prev_pos[2]) = 1
                 placed == [self EXCEPT
                               !.board[r][c] = value,
                               !.score = IF diagonal THEN @ + 1 ELSE @,
                               !.correct_moves = @ + 1]
             IN  [self |-> _save_to_history(placed, "move"), ret |-> TRUE]

get_next_number(self) ==
    IF self.level = 1
    THEN LET board_max == previous_input(self)
         IN  IF board_max = 25 THEN 26 ELSE board_max + 1
    ELSE -1

is_level1_complete(self) ==
    \A r \in Rows5 : \A c \in Rows5 : self.board[r][c] # 0


-----------------------------------------------------------------------------
(* Level 2 ring rules *)

\* Only the top and bottom rows count as the border.
is_ring_cell_rows_only(r, c) == r = 0 \/ r = 6

is_ring_cell(r, c) == r = 0 \/ r = 6 \/ c = 0 \/ c = 6

\* The 24 cells of the 7x7 grid is_ring_cell accepts.
BorderCells == {p \in Rows7 \X Rows7 : is_ring_cell(p[1], p[2])}

ring_cell_empty(self, r, c) == self.ring[r][c] = 0

\* No value is reported as placed.
get_placed_outer_numbers_none(self) == {}

\* The values on the border cells (membership is all the callers use).
get_placed_outer_numbers(self) ==
    {self.ring[p[1]][p[2]] : p \in BorderCells} \ {0}

_find_position_inner(self, number) == find_position(self, number)

_is_on_main_diagonal(r, c) == r = c

_is_on_anti_diagonal(r, c) == r + c = 4

\* The append without its condition.
AppendAlways(cond, pos) == <<pos>>

\* [pos] if cond else []: one conditional append of the list being built.
AppendIf(cond, pos) == IF cond THEN <<pos>> ELSE <<>>

\* The row ends are taken at the column's index.
_get_available_positions_row_of_column(self, number) ==
    IF number > 25 \/ number < 2 THEN <<>>
    ELSE LET inner_pos == _find_position_inner(self, number)
         IN  IF inner_pos = None THEN <<>>
             ELSE LET r == inner_pos[1]
                      c == inner_pos[2]
                      outer_r == c + 1
                      outer_c == c + 1
                      on_main == _is_on_main_diagonal(r, c)
                      on_anti == _is_on_anti_diagonal(r, c)
                  IN  AppendIf(self.ring[0][outer_c] = 0, <<0, outer_c>>)
                      \o AppendIf(self.ring[6][outer_c] = 0, <<6, outer_c>>)
                      \o AppendIf(self.ring[outer_r][0] = 0, <<outer_r, 0>>)
                      \o AppendIf(self.ring[outer_r][6] = 0, <<outer_r, 6>>)
                      \o AppendIf(on_main /\ <<r, c>> = <<0, 0>> /\ self.ring[0][0] = 0,
                                  <<0, 0>>)
                      \o AppendIf(on_main /\ <<r, c>> = <<4, 4>> /\ self.ring[6][6] = 0,
                                  <<6, 6>>)
                      \o AppendIf(on_anti /\ <<r, c>> = <<0, 4>> /\ self.ring[0][6] = 0,
                                  <<0, 6>>)
                      \o AppendIf(on_anti /\ <<r, c>> = <<4, 0>> /\ self.ring[6][0] = 0,
                                  <<6, 0>>)

\* The corner (0, 6) is offered to every number of the board's top row.
_get_available_positions_corner_of_row(self, number) ==
    IF number > 25 \/ number < 2 THEN <<>>
    ELSE LET inner_pos == _find_position_inner(self, number)
         IN  IF inner_pos = None THEN <<>>
             ELSE LET r == inner_pos[1]
                      c == inner_pos[2]
                      outer_r == r + 1
                      outer_c == c + 1
                      on_main == _is_on_main_diagonal(r, c)
                      on_anti == _is_on_anti_diagonal(r, c)
                  IN  AppendIf(self.ring[0][outer_c] = 0, <<0, outer_c>>)
                      \o AppendIf(self.ring[6][outer_c] = 0, <<6, outer_c>>)
                      \o AppendIf(self.ring[outer_r][0] = 0, <<outer_r, 0>>)
                      \o AppendIf(self.ring[outer_r][6] = 0, <<outer_r, 6>>)
                      \o AppendIf(on_main /\ <<r, c>> = <<0, 0>> /\ self.ring[0][0] = 0,
                                  <<0, 0>>)
                      \o AppendIf(on_main /\ <<r, c>> = <<4, 4>> /\ self.ring[6][6] = 0,
                                  <<6, 6>>)
                      \o AppendIf(r = 0 /\ self.ring[0][6] = 0,
                                  <<0, 6>>)
                      \o AppendIf(on_anti /\ <<r, c>> = <<4, 0>> /\ self.ring[6][0] = 0,
                                  <<6, 0>>)

_get_available_positions_for_number(self, number) ==
    IF number > 25 \/ number < 2 THEN <<>>
    ELSE LET inner_pos == _find_position_inner(self, number)
         IN  IF inner_pos = None THEN <<>>
             ELSE LET r == inner_pos[1]
                      c == inner_pos[2]
                      outer_r == r + 1
                      outer_c == c + 1
                      on_main == _is_on_main_diagonal(r, c)
                      on_anti == _is_on_anti_diagonal(r, c)
                  IN  AppendIf(self.ring[0][outer_c] = 0, <<0, outer_c>>)
                      \o AppendIf(self.ring[6][outer_c] = 0, <<6, outer_c>>)
                      \o AppendIf(self.ring[outer_r][0] = 0, <<outer_r, 0>>)
                      \o AppendIf(self.ring[outer_r][6] = 0, <<outer_r, 6>>)
                      \o AppendIf(on_main /\ <<r, c>> = <<0, 0>> /\ self.ring[0][0] = 0,
                                  <<0, 0>>)
                      \o AppendIf(on_main /\ <<r, c>> = <<4, 4>> /\ self.ring[6][6] = 0,
                                  <<6, 6>>)
                      \o AppendIf(on_anti /\ <<r, c>> = <<0, 4>> /\ self.ring[0][6] = 0,
                                  <<0, 6>>)
                      \o AppendIf(on_anti /\ <<r, c>> = <<4, 0>> /\ self.ring[6][0] = 0,
                                  <<6, 0>>)

\* range(1, 26) for range(2, 26).
_calculate_all_available_positions_from_1(self) ==
    [self EXCEPT
        !.level2_available_positions =
            [k \in {IntKey(num) : num \in 1 .. 25} |->
                _get_available_positions_for_number(self, k[2])]]

_calculate_all_available_positions(self) ==
    [self EXCEPT
        !.level2_available_positions =
            [k \in {IntKey(num) : num \in 2 .. 25} |->
                _get_available_positions_for_number(self, k[2])]]

place_on_ring_ui_only(self, r, c, value) ==
    LET rejected == [self |-> self, ret |-> FALSE]
    IN  IF ~(0 <= r /\ r < 7 /\ 0 <= c /\ c < 7) THEN rejected
        ELSE IF ~is_ring_cell(r, c) THEN rejected
        ELSE IF ~ring_cell_empty(self, r, c) THEN rejected
        ELSE IF value \in get_placed_outer_numbers(self) THEN rejected
        ELSE IF ~InList(<<r, c>>,
                        DictGet(self.level2_available_positions, IntKey(value), <<>>))
        THEN rejected
        ELSE LET placed == [self EXCEPT
                               !.ring[r][c] = value,
                               !.correct_moves = @ + 1]
             IN  [self |-> _save_to_history(
                               _calculate_all_available_positions(placed),
                               "ring_move"),
                  ret |-> TRUE]

\* The map is not computed again for the emptied ring.
clear_ring_keeps_map(self) ==
    _save_to_history(
        [self EXCEPT !.ring = EmptyRing, !.current_outer_number = 2],
        "clear_ring")

clear_ring(self) ==
    _save_to_history(
        _calculate_all_available_positions(
            [self EXCEPT !.ring = EmptyRing, !.current_outer_number = 2]),
        "clear_ring")

\* One border cell short of the full ring.
is_level2_complete_at_23(self) ==
    Cardinality({p \in BorderCells : self.ring[p[1]][p[2]] # 0}) >= 23

is_level2_complete(self) ==
    Cardinality({p \in BorderCells : self.ring[p[1]][p[2]] # 0}) = 24

\* The history of Level 1 is kept.
start_level2_keeps_history(self) ==
    _save_to_history(
        _calculate_all_available_positions(
            [self EXCEPT
                !.level1_completed = TRUE,
                !.level1_snapshot =
                    Some([board |-> self.board, score |-> self.score,
                          level |-> 1, ring |-> self.ring]),
                !.level = 2,
                !.correct_moves = 0,
                !.invalid_moves = 0,
                !.current_outer_number = 2,
                !.level2_completed = FALSE]),
        "level2_initial")

start_level2(self) ==
    _save_to_history(
        _calculate_all_available_positions(
            [self EXCEPT
                !.level1_completed = TRUE,
                !.level1_snapshot =
                    Some([board |-> self.board, score |-> self.score,
                          level |-> 1, ring |-> self.ring]),
                !.level = 2,
                !.correct_moves = 0,
                !.invalid_moves = 0,
                !.current_outer_number = 2,
                !.level2_completed = FALSE,
                !.move_history = <<>>]),
        "level2_initial")

-----------------------------------------------------------------------------
(* Save / Load state *)

get_state(self) == _snapshot_state(self)

\* The baseline is pushed whatever the history holds.
set_state_always_pushes(self, state) ==
    LET restored == _restore_snapshot(self, state)
        computed == IF restored.level = 2
                        /\ DOMAIN restored.level2_available_positions = {}
                    THEN _calculate_all_available_positions(restored)
                    ELSE restored
    IN  _save_to_history(computed, "loaded_initial")

set_state(self, state) ==
    LET restored == _restore_snapshot(self, state)
        computed == IF restored.level = 2
                        /\ DOMAIN restored.level2_available_positions = {}
                    THEN _calculate_all_available_positions(restored)
                    ELSE restored
    IN  IF computed.move_history = <<>>
        THEN _save_to_history(computed, "loaded_initial")
        ELSE computed

\* json writes a dict key as a string: the int n as str(n), a str as it is.
JsonKey(k) == StrKey(k[2])

\* json writes a tuple as an array, which is read back as a list.
JsonPair(t) == IF Len(t) = 3 THEN t ELSE <<"list", t[1], t[2]>>

\* A dict as json.load gives it back after json.dump, its values converted
\* by the caller.
JsonObject(d) ==
    [k \in {JsonKey(j) : j \in DOMAIN d} |->
        d[CHOOSE j \in DOMAIN d : JsonKey(j) = k]]

\* SaveState.save_game: the content of the file written, as json.load reads
\* it.  Lists of integers, integers, booleans, strings, None and dicts with
\* string keys come back as they were.
save_game(data) ==
    Some([data EXCEPT
            !.level2_available_positions =
                LET obj == JsonObject(@)
                IN  [k \in DOMAIN obj |->
                        [i \in 1 .. Len(obj[k]) |-> JsonPair(obj[k][i])]],
            !.time_limits = JsonObject(@)])

\* A file whose text is not JSON.
Malformed == Some([text |-> "{"])

IsMalformed(file) == file # None /\ "text" \in DOMAIN file[1]

\* SaveState.load_game: None without a file (FileNotFoundError is caught),
\* the document of a file json.load can read; json.load raises on any other
\* text and the exception leaves load_game.
load_game(file) ==
    IF file = None THEN [raised |-> FALSE, ret |-> None]
    ELSE IF IsMalformed(file) THEN [raised |-> TRUE, ret |-> None]
    ELSE [raised |-> FALSE, ret |-> file[1]]

-----------------------------------------------------------------------------
(* Completion data; now is what datetime.now() gave, formatted *)

\* Only None counts as no name.
NoNameOnlyNone(name) == name = None

\* not self.player_name: None or the empty string
NoName(name) == name = None \/ name = Some("")

\* raised: the ValueError; ret: the record returned otherwise.
build_completion_data(self, elapsed_time, now) ==
    IF NoName(self.player_name)
    THEN [raised |-> TRUE, ret |-> None]
    ELSE [raised |-> FALSE,
          ret |-> Some([Name |-> self.player_name[1],
                        CompletedAt |-> now,
                        CompletionSeconds |-> elapsed_time,
                        CorrectMoves |-> self.correct_moves,
                        InvalidMoves |-> self.invalid_moves,
                        GameLevel |-> self.level,
                        Score |-> self.score,
                        TimeLimit |-> get_time_limit(self, self.level),
                        TimeScoreDelta |-> self.time_bonus_last,
                        Board |-> self.board,
                        Ring |-> self.ring])]

\* min(list) of a non-empty list
ListMin(list) ==
    CHOOSE m \in {list[i] : i \in 1 .. Len(list)} :
        \A i \in 1 .. Len(list) : m <= list[i]

\* The comparison lets a tie through.
LessOrEqual(a, b) == a <= b

Less(a, b) == a < b

\* players: data.get("Players", {})
is_personal_best(players, name, current_time_seconds, lvl) ==
    LET player_games == DictGet(players, name, <<>>)
        previous_times ==
            [i \in 1 .. Len(SelectSeq(player_games,
                                      LAMBDA game : game.GameLevel = lvl)) |->
                SelectSeq(player_games,
                          LAMBDA game : game.GameLevel = lvl)[i].CompletionSeconds]
    IN  IF DOMAIN previous_times = {} THEN FALSE
        ELSE Less(current_time_seconds, ListMin(previous_times))

-----------------------------------------------------------------------------
(* The inputs of the exploration *)

\* The cells random.randint(0, 4) twice gives, one of each kind up to the
\* symmetries of the board: a corner, the two kinds of edge cell, the two
\* kinds of inner cell, the centre.
SeedCells == {<<0, 0>>, <<0, 1>>, <<0, 2>>, <<1, 1>>, <<1, 2>>, <<2, 2>>}

\* A complete Level-1 game: the cells of 1, 2, .., 25 in order, row by row,
\* alternating direction; 1 sits on the board corner (0, 0), 13 on the centre.
SnakeTour ==
    [k \in 1 .. 25 |->
        LET r == (k - 1) \div 5
            i == (k - 1) % 5
        IN  <<r, IF r % 2 = 0 THEN i ELSE 4 - i>>]

Tours == {SnakeTour}

\* The board after the first n placements of a tour.
TourBoard(tour, n) ==
    [r \in Rows5 |-> [c \in Rows5 |->
        LET ks == {k \in 1 .. n : tour[k] = <<r, c>>}
        IN  IF ks = {} THEN 0 ELSE CHOOSE k \in ks : TRUE]]

\* The largest value on a board.
BoardMax(b) == ListMax([r \in Rows5 |-> ListMax(b[r], 4)], 4)

\* The boards the exploration enters.
Explored(b) ==
    LET m == BoardMax(b)
    IN  m <= MaxFree \/ \E tour \in Tours : b = TourBoard(tour, m)

\* The calls explored.  make_move_level1: any cell of the board or one just
\* off each side of it; the last value again, the next one, or one more.
MoveCells ==
    (Rows5 \X Rows5) \cup {<<-1, 0>>, <<5, 4>>, <<0, -1>>, <<4, 5>>}

MoveValues(self) == {BoardMax(self.board) + d : d \in 0 .. 2}

\* place_on_ring_ui_only: any border cell, two inner cells or one just off
\* each side of the grid; a value below 2, above 25, or one of two of the
\* tour's numbers whose candidates overlap: 2 on an edge of the board and 5
\* on its corner (0, 4).
RingCells ==
    BorderCells
        \cup {<<1, 1>>, <<3, 3>>}
        \cup {<<-1, 0>>, <<7, 6>>, <<0, -1>>, <<6, 7>>}

RingValues == {1, 2, 5, 26}

-----------------------------------------------------------------------------
(* The operations *)

Returned(op, ret) == last_call' = [op |-> op, ret |-> ret]

NewGame ==
    \E seed \in SeedCells :
        \E after \in {reset_new_game_level1(Self, seed[1], seed[2])} :
            /\ Become(after)
            /\ Returned("reset_new_game_level1", "None")
            /\ UNCHANGED <<files, timer>>

\* clear_level1_keep_one; on_clear_board calls it outside Level 2
ClearKeepOne ==
    /\ level # 2
    /\ correct_moves <= MaxCarry
    /\ \E seed \in SeedCells :
        \E after \in {clear_level1_keep_one(Self, seed[1], seed[2])} : Become(after)
    /\ Returned("clear_level1_keep_one", "None")
    /\ UNCHANGED <<files, timer>>

\* clear_level1_random_one; on_clear_board calls it outside Level 2
ClearRandomOne ==
    /\ level # 2
    /\ correct_moves <= MaxCarry
    /\ \E seed \in SeedCells :
        \E after \in {clear_level1_random_one(Self, seed[1], seed[2])} : Become(after)
    /\ Returned("clear_level1_random_one", "None")
    /\ UNCHANGED <<files, timer>>

\* clear_ring; on_clear_board calls it in Level 2
ClearRing ==
    /\ level = 2
    /\ Len(move_history) < MaxL2Hist
    /\ \E after \in {clear_ring(Self)} : Become(after)
    /\ Returned("clear_ring", "None")
    /\ UNCHANGED <<files, timer>>

\* make_move_level1; on_place calls it in Level 1
MakeMoveLevel1 ==
    /\ level = 1
    /\ \E res \in {make_move_level1(Self, cell[1], cell[2], value) :
                    cell \in MoveCells, value \in MoveValues(Self)} :
        /\ res.ret => Explored(res.self.board)
        /\ Become(res.self)
        /\ Returned("make_move_level1", IF res.ret THEN "True" ELSE "False")
    /\ UNCHANGED <<files, timer>>

\* start_level2; on_place calls it once a placement completed Level 1
StartLevel2 ==
    /\ level = 1
    /\ is_level1_complete(Self)
    /\ \E after \in {start_level2(Self)} : Become(after)
    /\ Returned("start_level2", "None")
    /\ UNCHANGED <<files, timer>>

\* place_on_ring_ui_only; on_place calls it in Level 2
PlaceOnRing ==
    /\ level = 2
    /\ \E res \in {place_on_ring_ui_only(Self, cell[1], cell[2], value) :
                    cell \in RingCells, value \in RingValues} :
        /\ res.ret => Len(move_history) < MaxL2Hist
        /\ Become(res.self)
        /\ Returned("place_on_ring_ui_only", IF res.ret THEN "True" ELSE "False")
    /\ UNCHANGED <<files, timer>>

UndoLastMove ==
    \E res \in {undo_last_move(Self)} :
        /\ Become(res.self)
        /\ Returned("undo_last_move", IF res.ret THEN "True" ELSE "False")
        /\ UNCHANGED <<files, timer>>

\* InterfaceGUI.__init__: Logic() and then new_game_level1()
Init ==
    /\ \E seed \in SeedCells :
        Holds(reset_new_game_level1(LogicInit, seed[1], seed[2]))
    /\ last_call = [op |-> "reset_new_game_level1", ret |-> "None"]
    /\ saved_file = None
    /\ completed_games = EmptyDict
    /\ InitTimer

Next ==
    \/ NewGame
    \/ ClearKeepOne
    \/ ClearRandomOne
    \/ ClearRing
    \/ MakeMoveLevel1
    \/ StartLevel2
    \/ PlaceOnRing
    \/ UndoLastMove

Spec == Init /\ [][Next]_vars

-----------------------------------------------------------------------------
(* The handlers of InterfaceGUI for a new game, clearing, undo, save, load *)

\* new_game_level1: the object and the timer after the call.
new_game_level1(self, tk, r, c) ==
    [self |-> reset_new_game_level1(self, r, c),
     tk |-> _start_level_timer(reset_new_game_level1(self, r, c), tk)]

\* on_clear_board; keep_one is the answer to its question in Level 1.
on_clear_board(self, keep_one, r, c) ==
    IF self.level = 2 THEN clear_ring(self)
    ELSE IF keep_one THEN clear_level1_keep_one(self, r, c)
    ELSE clear_level1_random_one(self, r, c)

\* on_undo; yes is the answer to its question.
on_undo(self, yes) ==
    IF self.level1_completed /\ self.level = 2 /\ Len(self.move_history) <= 1
    THEN [self |-> self, ret |-> "cannot undo"]
    ELSE IF ~can_undo(self) THEN [self |-> self, ret |-> "cannot undo"]
    ELSE IF ~yes THEN [self |-> self, ret |-> "declined"]
    ELSE LET res == undo_last_move(self)
         IN  [self |-> res.self, ret |-> IF res.ret THEN "undone" ELSE "failed"]

\* on_save: the file written.
on_save(self) == save_game(get_state(self))

\* on_load: the handler ends with the exception load_game raised, returns
\* when there is no document, and else calls set_state with it and starts
\* the level timer again.
on_load(self, tk, file) ==
    LET data == load_game(file)
        loaded == set_state(self, data.ret)
    IN  IF data.raised
        THEN [self |-> self, tk |-> tk, ret |-> "JSONDecodeError"]
        ELSE IF data.ret = None
        THEN [self |-> self, tk |-> tk, ret |-> "no save"]
        ELSE [self |-> loaded, tk |-> _start_level_timer(loaded, tk),
              ret |-> "loaded"]

-----------------------------------------------------------------------------
(* Saving and loading: one game along the tour, a second seed, the file *)

PersistSeeds == {<<0, 0>>, <<2, 2>>}

PersistRingValues == {2, 26}

\* Without a saved game the game is played to its end; with one, while the
\* history is short.
PlayedOn ==
    saved_file = None \/ IsMalformed(saved_file) \/ Len(move_history) <= MaxLoadHist

PersistNewGame ==
    \E seed \in PersistSeeds :
        \E after \in {reset_new_game_level1(Self, seed[1], seed[2])} :
            /\ Become(after)
            /\ Returned("reset_new_game_level1", "None")
            /\ UNCHANGED <<files, timer>>

\* make_move_level1 with the next value, followed along the tour
PersistMove ==
    /\ level = 1
    /\ \E res \in {make_move_level1(Self, cell[1], cell[2], BoardMax(board) + 1) :
                    cell \in MoveCells} :
        /\ res.ret => PlayedOn /\ \E tour \in Tours :
                        res.self.board = TourBoard(tour, BoardMax(res.self.board))
        /\ Become(res.self)
        /\ Returned("make_move_level1", IF res.ret THEN "True" ELSE "False")
    /\ UNCHANGED <<files, timer>>

\* place_on_ring_ui_only
PersistPlaceOnRing ==
    /\ level = 2
    /\ \E res \in {place_on_ring_ui_only(Self, cell[1], cell[2], value) :
                    cell \in RingCells, value \in PersistRingValues} :
        /\ res.ret => PlayedOn /\ Len(move_history) < MaxL2Hist
        /\ Become(res.self)
        /\ Returned("place_on_ring_ui_only", IF res.ret THEN "True" ELSE "False")
    /\ UNCHANGED <<files, timer>>

OnSave ==
    /\ Len(move_history) <= MaxSaveHist
    /\ saved_file' = on_save(Self)
    /\ UNCHANGED <<fields, completed_games, timer>>
    /\ Returned("save_game", "None")

\* on_load
OnLoad ==
    /\ Len(move_history) <= MaxLoadHist
    /\ \E res \in {on_load(Self, Tk, saved_file)} :
        /\ Become(res.self)
        /\ TimerBecomes(res.tk)
        /\ IF res.ret = "JSONDecodeError"
           THEN Returned("load_game", "JSONDecodeError")
           ELSE IF res.ret = "no save"
           THEN Returned("load_game", "None")
           ELSE Returned("set_state", "None")
    /\ UNCHANGED files

\* set_state called with what get_state returns
SetGetState ==
    /\ \E after \in {set_state(Self, get_state(Self))} : Become(after)
    /\ Returned("set_state(get_state())", "None")
    /\ UNCHANGED <<files, timer>>

\* The session starts without a save file or with one that is not JSON.
InitFiles ==
    /\ saved_file \in {None, Malformed}
    /\ completed_games = EmptyDict

InitPersist ==
    /\ Holds(reset_new_game_level1(LogicInit, 0, 0))
    /\ last_call = [op |-> "reset_new_game_level1", ret |-> "None"]
    /\ InitFiles
    /\ InitTimer

NextPersist ==
    \/ PersistNewGame
    \/ PersistMove
    \/ StartLevel2
    \/ PersistPlaceOnRing
    \/ UndoLastMove
    \/ OnSave
    \/ OnLoad
    \/ SetGetState

SpecPersist == InitPersist /\ [][NextPersist]_vars

-----------------------------------------------------------------------------
(* A long game: Level 1 along the tour, then one number placed on the ring *)
(* and the ring cleared, again and again, which fills the history          *)

\* make_move_level1 of the next value on the tour's next cell
HistMove ==
    /\ level = 1
    /\ BoardMax(board) < 25
    /\ \E cell \in {SnakeTour[BoardMax(board) + 1]} :
        \E res \in {make_move_level1(Self, cell[1], cell[2], BoardMax(board) + 1)} :
            /\ Become(res.self)
            /\ Returned("make_move_level1", IF res.ret THEN "True" ELSE "False")
    /\ UNCHANGED <<files, timer>>

\* place_on_ring_ui_only of 2 on its candidate (0, 2)
HistPlaceOnRing ==
    /\ level = 2
    /\ correct_moves < MaxHistPlacements
    /\ \E res \in {place_on_ring_ui_only(Self, 0, 2, 2)} :
        /\ Become(res.self)
        /\ Returned("place_on_ring_ui_only", IF res.ret THEN "True" ELSE "False")
    /\ UNCHANGED <<files, timer>>

\* clear_ring of a ring with a number on it
HistClearRing ==
    /\ level = 2
    /\ ring # EmptyRing
    /\ \E after \in {clear_ring(Self)} : Become(after)
    /\ Returned("clear_ring", "None")
    /\ UNCHANGED <<files, timer>>

NextHistory ==
    \/ HistMove
    \/ StartLevel2
    \/ HistPlaceOnRing
    \/ HistClearRing
    \/ UndoLastMove

InitHistory ==
    /\ Holds(reset_new_game_level1(LogicInit, 0, 0))
    /\ last_call = [op |-> "reset_new_game_level1", ret |-> "None"]
    /\ saved_file = None
    /\ completed_games = EmptyDict
    /\ InitTimer

SpecHistory == InitHistory /\ [][NextHistory]_vars

-----------------------------------------------------------------------------
(* Time scoring and completion records: the handlers of InterfaceGUI that *)
(* reach them, on a game played along the tour                            *)

\* _ensure_player_name; answer is the name the dialog ends with, None when
\* it is cancelled.  ret: whether a name is established.
_ensure_player_name(self, answer) ==
    IF ~NoName(self.player_name) THEN [self |-> self, ret |-> TRUE]
    ELSE IF answer = None THEN [self |-> self, ret |-> FALSE]
    ELSE [self |-> [self EXCEPT !.player_name = answer], ret |-> TRUE]

\* data["Players"].setdefault(name, []).append(completion)
AddCompletion(players, completion) ==
    DictSet(players, completion.Name,
            Append(DictGet(players, completion.Name, <<>>), completion))

\* start_level2_ui_only: the object and the timer after the call.
start_level2_ui_only(self, tk) ==
    [self |-> start_level2(self),
     tk |-> _start_level_timer(start_level2(self), tk)]

\* A placement the engine rejects is not counted.
on_place_level1_silent(self, tk, players, r, c, value, answer, elapsed, now) ==
    LET res == make_move_level1(self, r, c, value)
        named == _ensure_player_name(res.self, answer)
        scored == apply_time_scoring(named.self, 1, elapsed).self
        completion == build_completion_data(scored, elapsed, now).ret[1]
        level2 == start_level2_ui_only(scored, _stop_level_timer(tk))
    IN  IF ~res.ret
        THEN [self |-> res.self, tk |-> tk, players |-> players,
              ret |-> "invalid"]
        ELSE IF ~is_level1_complete(res.self)
        THEN [self |-> res.self, tk |-> tk, players |-> players,
              ret |-> "placed"]
        ELSE IF ~named.ret
        THEN [self |-> named.self, tk |-> tk, players |-> players,
              ret |-> "no name"]
        ELSE [self |-> level2.self, tk |-> level2.tk,
              players |-> AddCompletion(players, completion),
              ret |-> IF is_personal_best(players, scored.player_name[1],
                                          elapsed, 1)
                      THEN "personal best" ELSE "completed"]

\* The Level-1 branch of on_place, taken with an inner cell (r, c)
\* selected.  Gives the object, the timer, the completions file and what
\* the handler came to.
on_place_level1(self, tk, players, r, c, value, answer, elapsed, now) ==
    LET res == make_move_level1(self, r, c, value)
        named == _ensure_player_name(res.self, answer)
        scored == apply_time_scoring(named.self, 1, elapsed).self
        completion == build_completion_data(scored, elapsed, now).ret[1]
        level2 == start_level2_ui_only(scored, _stop_level_timer(tk))
    IN  IF ~res.ret
        THEN [self |-> [res.self EXCEPT !.invalid_moves = @ + 1], tk |-> tk,
              players |-> players, ret |-> "invalid"]
        ELSE IF ~is_level1_complete(res.self)
        THEN [self |-> res.self, tk |-> tk, players |-> players,
              ret |-> "placed"]
        ELSE IF ~named.ret
        THEN [self |-> named.self, tk |-> tk, players |-> players,
              ret |-> "no name"]
        ELSE [self |-> level2.self, tk |-> level2.tk,
              players |-> AddCompletion(players, completion),
              ret |-> IF is_personal_best(players, scored.player_name[1],
                                          elapsed, 1)
                      THEN "personal best" ELSE "completed"]

\* The Level-2 branch of on_place, taken with a ring cell (r, c) selected.
on_place_level2(self, tk, players, r, c, value, answer, elapsed, now) ==
    LET res == place_on_ring_ui_only(self, r, c, value)
        named == _ensure_player_name(res.self, answer)
        scored == apply_time_scoring(named.self, 2, elapsed).self
        completion == build_completion_data(scored, elapsed, now).ret[1]
    IN  IF ~res.ret
        THEN [self |-> [res.self EXCEPT !.invalid_moves = @ + 1], tk |-> tk,
              players |-> players, ret |-> "invalid"]
        ELSE IF ~is_level2_complete(res.self)
        THEN [self |-> res.self, tk |-> tk, players |-> players,
              ret |-> "placed"]
        ELSE IF ~named.ret
        THEN [self |-> named.self, tk |-> tk, players |-> players,
              ret |-> "no name"]
        ELSE [self |-> scored, tk |-> _stop_level_timer(tk),
              players |-> AddCompletion(players, completion),
              ret |-> IF is_personal_best(players, scored.player_name[1],
                                          elapsed, 2)
                      THEN "personal best" ELSE "completed"]

\* on_place with the cell (r, c) of area ("inner" or "ring") selected and a
\* whole number entered; answer is what the name dialog ends with, elapsed
\* what the clock gives at the completion of a level.
on_place(self, tk, players, area, r, c, value, answer, elapsed, now) ==
    IF self.level = 1 /\ value # get_next_number(self)
    THEN [self |-> [self EXCEPT !.invalid_moves = @ + 1], tk |-> tk,
          players |-> players, ret |-> "invalid"]
    ELSE IF self.level = 2 /\ (value < 2 \/ value > 25)
    THEN [self |-> self, tk |-> tk, players |-> players, ret |-> "out of range"]
    ELSE IF self.level = 2 /\ value \in get_placed_outer_numbers(self)
    THEN [self |-> self, tk |-> tk, players |-> players, ret |-> "already placed"]
    ELSE IF self.level = 1 /\ area = "inner"
    THEN on_place_level1(self, tk, players, r, c, value, answer, elapsed, now)
    ELSE IF self.level = 2 /\ area = "ring"
    THEN on_place_level2(self, tk, players, r, c, value, answer, elapsed, now)
    ELSE [self |-> self, tk |-> tk, players |-> players, ret |-> "wrong cell"]

\* int(val) of the texts that are numbers; on any other text int() raises.
IntOf == [val \in {"60", "-5"} |-> IF val = "60" THEN 60 ELSE -5]

\* on_set_time_limits: the dialog of one level; answer is None when it is
\* cancelled, else the text entered.  The blank text disables the limit, a
\* number that is not negative sets it, anything else only warns.
ask(self, lvl, answer) ==
    IF answer = None THEN self
    ELSE IF answer[1] = "" THEN set_time_limit(self, lvl, None)
    ELSE IF answer[1] \notin DOMAIN IntOf THEN self
    ELSE IF IntOf[answer[1]] < 0 THEN self
    ELSE set_time_limit(self, lvl, Some(IntOf[answer[1]]))

on_set_time_limits(self, a1, a2, a3) == ask(ask(ask(self, 1, a1), 2, a2), 3, a3)

Names == {"ann", "bob"}

\* The outcomes of the name dialog.
NameAnswers == {None} \cup {Some(n) : n \in Names}

\* Elapsed times in hundredths of a second: 1.5 s is halfway between two
\* seconds, 61.5 s is over the default limit of 60 s.
ElapsedTimes == {150, 6150}

\* What datetime.now() gives in this session, and gave in an earlier one.
Now == "now"

Earlier == "earlier"

\* A record of an earlier session.
PriorRecord(name, lvl, seconds) ==
    [Name |-> name, CompletedAt |-> Earlier, CompletionSeconds |-> seconds,
     CorrectMoves |-> 24, InvalidMoves |-> 0, GameLevel |-> lvl, Score |-> 0,
     TimeLimit |-> Some(60), TimeScoreDelta |-> 0,
     Board |-> TourBoard(SnakeTour, 25), Ring |-> EmptyRing]

\* The completions files the session may find: none, one Level-1 record of
\* ann, a record of bob only, and records of both players and both levels.
PriorGames ==
    {EmptyDict,
     [n \in {"ann"} |-> <<PriorRecord("ann", 1, 250)>>],
     [n \in {"bob"} |-> <<PriorRecord("bob", 1, 150)>>],
     [n \in Names |->
        IF n = "ann"
        THEN <<PriorRecord("ann", 1, 250), PriorRecord("ann", 2, 100)>>
        ELSE <<PriorRecord("bob", 1, 100)>>]}

\* The records written in this session.
SessionRecords(players) ==
    {<<n, i>> \in (DOMAIN players) \X (1 .. 8) :
        i <= Len(players[n]) /\ players[n][i].CompletedAt = Now}

\* The game is near its end.
NearEnd == level = 1 /\ 25 - BoardMax(board) <= MaxLeft

ScoreNewGame ==
    /\ Cardinality(SessionRecords(completed_games)) < MaxCompletions
    /\ \E res \in {new_game_level1(Self, Tk, 0, 0)} :
        /\ Become(res.self)
        /\ TimerBecomes(res.tk)
        /\ Returned("reset_new_game_level1", "None")
        /\ UNCHANGED files

\* on_place in Level 1: the next value on the tour's next cell or on the
\* cell of the 1
ScorePlace ==
    /\ level = 1
    /\ \E cell \in {SnakeTour[IF BoardMax(board) < 25
                               THEN BoardMax(board) + 1 ELSE 25], SnakeTour[1]},
          answer \in IF BoardMax(board) = 24 /\ NoName(player_name)
                     THEN NameAnswers ELSE {None},
          elapsed \in IF BoardMax(board) = 24 THEN ElapsedTimes ELSE {0} :
        \E res \in {on_place(Self, Tk, completed_games, "inner", cell[1], cell[2],
                             BoardMax(board) + 1, answer, elapsed, Now)} :
            /\ res.ret = "invalid" => invalid_moves < MaxInvalid /\ NearEnd
            /\ Become(res.self)
            /\ TimerBecomes(res.tk)
            /\ completed_games' = res.players
            /\ Returned("on_place", res.ret)
    /\ UNCHANGED saved_file

ScoreSetTimeLimits ==
    /\ NearEnd
    /\ \E a1 \in {None, Some(""), Some("60"), Some("-5"), Some("x")},
          a2 \in {None}, a3 \in {None} :
        \E after \in {on_set_time_limits(Self, a1, a2, a3)} : Become(after)
    /\ Returned("on_set_time_limits", "None")
    /\ UNCHANGED <<files, timer>>

\* build_completion_data called as the object stands, near the end of
\* Level 1 and in Level 2
BuildCompletionData ==
    /\ NearEnd \/ level = 2
    /\ \E elapsed \in ElapsedTimes :
        \E res \in {build_completion_data(Self, elapsed, Now)} :
            Returned("build_completion_data",
                     IF res.raised THEN "ValueError" ELSE "dict")
    /\ UNCHANGED <<fields, files, timer>>

InitScore ==
    /\ Holds(reset_new_game_level1(LogicInit, 0, 0))
    /\ last_call = [op |-> "reset_new_game_level1", ret |-> "None"]
    /\ saved_file = None
    /\ completed_games \in PriorGames
    /\ InitTimer

NextScore ==
    \/ ScoreNewGame
    \/ ScorePlace
    \/ ScoreSetTimeLimits
    \/ BuildCompletionData
    \/ UndoLastMove

SpecScore == InitScore /\ [][NextScore]_vars

-----------------------------------------------------------------------------
(* A session at the window: the handlers of InterfaceGUI and the timer    *)
(* tick, on a game both of whose levels can be completed                  *)

\* A complete Level-1 game whose 1 is not on a corner of the board: the
\* cells of 1, 2, .., 25 in order.  2, 8, 21 and 25 sit on the corners.
EdgeTour ==
    <<<<0, 1>>, <<0, 0>>, <<1, 0>>, <<1, 1>>, <<1, 2>>,
      <<0, 2>>, <<0, 3>>, <<0, 4>>, <<1, 4>>, <<1, 3>>,
      <<2, 4>>, <<2, 3>>, <<2, 2>>, <<2, 1>>, <<2, 0>>,
      <<3, 0>>, <<3, 1>>, <<3, 2>>, <<3, 3>>, <<3, 4>>,
      <<4, 4>>, <<4, 3>>, <<4, 2>>, <<4, 1>>, <<4, 0>>>>

\* A complete Level-2 game on the board of EdgeTour: the ring cells of
\* 2, 3, .., 25 in order.
RingPlanCells ==
    <<<<0, 0>>, <<0, 1>>, <<0, 2>>, <<2, 0>>, <<1, 0>>, <<1, 6>>,
      <<0, 6>>, <<0, 5>>, <<2, 6>>, <<6, 5>>, <<0, 4>>, <<3, 0>>,
      <<3, 6>>, <<6, 1>>, <<4, 0>>, <<6, 2>>, <<0, 3>>, <<6, 4>>,
      <<4, 6>>, <<6, 6>>, <<5, 6>>, <<6, 3>>, <<5, 0>>, <<6, 0>>>>

\* The ring cell the plan gives number n; the last cell for any n over 25.
RingPlan(n) == RingPlanCells[IF n <= 25 THEN n - 1 ELSE 24]

\* The least number of 2 .. 25 not on the ring, 26 when all are on it.
NextOuter(self) ==
    CHOOSE n \in 2 .. 26 :
        /\ n \notin get_placed_outer_numbers(self)
        /\ \A m \in 2 .. n - 1 : m \in get_placed_outer_numbers(self)

\* Level 2 is near its end.
RingNearEnd ==
    level = 2 /\ 24 - Cardinality(get_placed_outer_numbers(Self)) <= MaxLeft

\* The name the player of the session gives.
GuiNames == {"ann"}

\* What the clock gives at a completion, in hundredths of a second.
GuiElapsed == 150

\* The cells and values on_place is called with.  Level 1: the next value
\* or the one after it, on the tour's next cell or on the cell of the 1.
\* Level 2: the plan's next number on its cell, and near the end also that
\* number on the cell of 2, and 2 and 26 on the plan's cell.
GuiPlacements ==
    IF level = 1
    THEN {<<"inner", cell, value>> :
            cell \in {EdgeTour[IF BoardMax(board) < 25
                               THEN BoardMax(board) + 1 ELSE 25], EdgeTour[1]},
            value \in {BoardMax(board) + 1, BoardMax(board) + 2}}
    ELSE {<<"ring", RingPlan(NextOuter(Self)), NextOuter(Self)>>}
            \cup IF RingNearEnd
                 THEN {<<"ring", RingPlan(2), NextOuter(Self)>>,
                       <<"ring", RingPlan(NextOuter(Self)), 2>>,
                       <<"ring", RingPlan(NextOuter(Self)), 26>>}
                 ELSE {}

\* The records written in this session are those of games without a
\* rejected placement and without a clearing of the board.
PlainRecords ==
    \A rec \in SessionRecords(completed_games) :
        \A game \in {completed_games[rec[1]][rec[2]]} :
            game.InvalidMoves = 0 /\ game.CorrectMoves = 24

\* The game that is played to its end: without a save file, a rejected
\* placement or a clearing, after at most one completion of a level.
LongGame ==
    /\ saved_file = None
    /\ invalid_moves = 0
    /\ PlainRecords
    /\ Cardinality(SessionRecords(completed_games)) <= 1
    /\ level = 1 => correct_moves = BoardMax(board) - 1
    /\ \A i \in 1 .. Len(move_history) :
        move_history[i][1] \notin {"clear_ring", "loaded_initial"}

\* Any other game is played while it is short or near its end.
ShortGame ==
    IF level = 1 THEN BoardMax(board) <= MaxFree \/ NearEnd
    ELSE Len(move_history) < MaxL2Hist \/ RingNearEnd

\* The placement would complete the level.
Completing ==
    \/ level = 1 /\ BoardMax(board) = 24
    \/ level = 2 /\ NextOuter(Self) = 25

\* new_game_level1
GuiNewGame ==
    /\ Cardinality(SessionRecords(completed_games)) <= MaxCompletions
    /\ \E seed \in {EdgeTour[1]} :
        \E res \in {new_game_level1(Self, Tk, seed[1], seed[2])} :
            /\ Become(res.self)
            /\ TimerBecomes(res.tk)
            /\ Returned("new_game_level1", "None")
    /\ UNCHANGED files

\* on_place
GuiPlace ==
    /\ \E sel \in GuiPlacements,
          answer \in IF Completing /\ NoName(player_name)
                     THEN {None} \cup {Some(n) : n \in GuiNames} ELSE {None} :
        \E res \in {on_place(Self, Tk, completed_games, sel[1], sel[2][1],
                             sel[2][2], sel[3], answer, GuiElapsed, Now)} :
            /\ res.ret = "placed" => LongGame \/ ShortGame
            /\ res.ret \notin {"placed", "completed", "personal best", "no name"}
                    => saved_file = None /\ (NearEnd \/ RingNearEnd)
            /\ res.ret = "invalid" => invalid_moves < MaxInvalid
            /\ res.ret \in {"completed", "personal best"}
                    => Cardinality(SessionRecords(completed_games)) <= MaxCompletions
            /\ Become(res.self)
            /\ TimerBecomes(res.tk)
            /\ completed_games' = res.players
            /\ Returned("on_place", res.ret)
    /\ UNCHANGED saved_file

\* on_undo
GuiUndo ==
    /\ \E yes \in IF NearEnd /\ saved_file = None THEN BOOLEAN ELSE {TRUE} :
        \E res \in {on_undo(Self, yes)} :
            /\ Become(res.self)
            /\ Returned("on_undo", res.ret)
    /\ UNCHANGED <<files, timer>>

\* on_clear_board
GuiClearBoard ==
    /\ IF level = 2 THEN Len(move_history) < MaxL2Hist
       ELSE correct_moves <= MaxCarry
    /\ \E keep_one \in BOOLEAN, seed \in {EdgeTour[1]} :
        /\ \E after \in {on_clear_board(Self, keep_one, seed[1], seed[2])} :
            Become(after)
        /\ Returned("on_clear_board",
                    IF level = 2 THEN "ring"
                    ELSE IF keep_one THEN "keep" ELSE "random")
    /\ UNCHANGED <<files, timer>>

\* on_save
GuiSave ==
    /\ LongGame
    /\ Len(move_history) <= MaxSaveHist \/ Completing
    /\ saved_file' = on_save(Self)
    /\ Returned("on_save", "None")
    /\ UNCHANGED <<fields, completed_games, timer>>

\* on_load
GuiLoad ==
    /\ Len(move_history) <= MaxLoadHist
    /\ \E res \in {on_load(Self, Tk, saved_file)} :
        /\ Become(res.self)
        /\ TimerBecomes(res.tk)
        /\ Returned("on_load", res.ret)
    /\ UNCHANGED files

\* Tk runs a pending callback, which is _tick_timer.
GuiTick ==
    /\ \E id \in after_jobs :
        \E res \in {_tick_timer(Self, [Tk EXCEPT !.pending = @ \ {id}])} :
            /\ Become(res.self)
            /\ TimerBecomes(res.tk)
    /\ UNCHANGED <<last_call, files>>

\* InterfaceGUI.__init__ with no files on disk.
InitGui ==
    /\ \E res \in {new_game_level1(LogicInit, TimerInit,
                                   EdgeTour[1][1], EdgeTour[1][2])} :
        Holds(res.self) /\ TimerIs(res.tk)
    /\ last_call = [op |-> "new_game_level1", ret |-> "None"]
    /\ saved_file = None
    /\ completed_games = EmptyDict

\* A session of games, with the timer running.
NextGui ==
    \/ GuiNewGame
    \/ GuiPlace
    \/ GuiUndo
    \/ GuiClearBoard
    \/ GuiTick

SpecGui == InitGui /\ [][NextGui]_vars

\* A session in which the game is saved and loaded.
NextSaved ==
    \/ GuiNewGame
    \/ GuiPlace
    \/ GuiUndo
    \/ GuiSave
    \/ GuiLoad

SpecSaved == InitGui /\ [][NextSaved]_vars

-----------------------------------------------------------------------------
(* Walks of Level 1 in a corner of the board, where the path can be shut in *)

\* The seeds of the walks: the corner (0, 0) and the cell next to it.
WalkSeeds == {<<0, 0>>, <<0, 1>>}

\* The cells make_move_level1 is called with: the corner's two rows and
\* three columns, and one cell off the board.
WalkCells == ((0 .. 1) \X (0 .. 2)) \cup {<<-1, 0>>}

\* reset_new_game_level1
WalkNewGame ==
    \E seed \in WalkSeeds :
        \E after \in {reset_new_game_level1(Self, seed[1], seed[2])} :
            /\ Become(after)
            /\ Returned("reset_new_game_level1", "None")
            /\ UNCHANGED <<files, timer>>

\* make_move_level1 with the next value or the one after it
WalkMove ==
    /\ \E cell \in WalkCells, value \in {get_next_number(Self),
                                          get_next_number(Self) + 1} :
        \E res \in {make_move_level1(Self, cell[1], cell[2], value)} :
            /\ res.ret => BoardMax(res.self.board) <= MaxPath
            /\ Become(res.self)
            /\ Returned("make_move_level1", IF res.ret THEN "True" ELSE "False")
    /\ UNCHANGED <<files, timer>>

\* clear_level1_keep_one and clear_level1_random_one
WalkClear ==
    /\ correct_moves <= MaxCarry
    /\ \E keep_one \in BOOLEAN, seed \in WalkSeeds :
        /\ \E after \in {IF keep_one
                          THEN clear_level1_keep_one(Self, seed[1], seed[2])
                          ELSE clear_level1_random_one(Self, seed[1], seed[2])} :
            Become(after)
        /\ Returned(IF keep_one THEN "clear_level1_keep_one"
                    ELSE "clear_level1_random_one", "None")
    /\ UNCHANGED <<files, timer>>

InitWalk ==
    /\ \E seed \in WalkSeeds :
        Holds(reset_new_game_level1(LogicInit, seed[1], seed[2]))
    /\ last_call = [op |-> "reset_new_game_level1", ret |-> "None"]
    /\ saved_file = None
    /\ completed_games = EmptyDict
    /\ InitTimer

NextWalk ==
    \/ WalkNewGame
    \/ WalkMove
    \/ WalkClear
    \/ UndoLastMove

SpecWalk == InitWalk /\ [][NextWalk]_vars

-----------------------------------------------------------------------------
(* The properties: notions of the specification, stated on the model *)

BoardCells == Rows5 \X Rows5

GridCells == Rows7 \X Rows7

\* The cells of the board holding a value.
Filled == {p \in BoardCells : board[p[1]][p[2]] # 0}

\* The cell of the board holding v.
CellOf(v) == CHOOSE p \in BoardCells : board[p[1]][p[2]] = v

Dist(a, b) == IF a > b THEN a - b ELSE b - a

Chebyshev(p, q) ==
    IF Dist(p[1], q[1]) > Dist(p[2], q[2]) THEN Dist(p[1], q[1])
    ELSE Dist(p[2], q[2])

\* C1: the values on the board are pairwise distinct and are exactly 1 .. k,
\* k >= 1 being the largest of them.
C1_BoardHoldsOneToMax ==
    LET k == BoardMax(board)
    IN  /\ k >= 1
        /\ {board[p[1]][p[2]] : p \in Filled} = 1 .. k
        /\ Cardinality(Filled) = k

\* C1 after placements, an undo and a clearing that keeps the seed.
C1_Witness ==
    /\ last_call = [op |-> "undo_last_move", ret |-> "True"]
    /\ BoardMax(board) >= 3
    /\ correct_moves >= BoardMax(board)

\* The values a placement is tried with when the maximum is m: the values
\* around m + 1, the least and the greatest of the game, and those outside.
TriedValues(m) == {m - 1, m, m + 1, m + 2, m + 3} \cup {0, 1, 25, 26}

\* C2: a Level-1 placement is accepted exactly when the cell is on the board,
\* the value is the board's maximum plus 1, the cell is empty and the cell is
\* within Chebyshev distance 1 of the cell holding the maximum.
C2_AcceptedIffLegal ==
    \A m \in {BoardMax(board)} : \A prev \in {CellOf(m)} :
        \A cell \in MoveCells : \A value \in TriedValues(m) :
            make_move_level1(Self, cell[1], cell[2], value).ret
                <=> /\ cell \in BoardCells
                    /\ value = m + 1
                    /\ board[cell[1]][cell[2]] = 0
                    /\ Chebyshev(cell, prev) <= 1

\* C2's example: the maximum is 3, a placement was just rejected, and 5 is
\* refused on an empty cell next to the 3.
C2_Witness ==
    /\ last_call = [op |-> "make_move_level1", ret |-> "False"]
    /\ BoardMax(board) = 3
    /\ \E cell \in BoardCells :
        /\ board[cell[1]][cell[2]] = 0
        /\ Chebyshev(cell, CellOf(3)) = 1
        /\ ~make_move_level1(Self, cell[1], cell[2], 5).ret

\* A call of a placement operation that returned false.
PlacementRejected(call) ==
    /\ call.op \in {"make_move_level1", "place_on_ring_ui_only"}
    /\ call.ret = "False"

\* C3: a rejected placement of either level returns false and leaves board,
\* ring, score, level, correct-move counter, eligibility map and history as
\* they were.
C3_RejectionChangesNothing ==
    [][PlacementRejected(last_call') =>
            UNCHANGED <<board, ring, score, level, correct_moves,
                        level2_available_positions, move_history>>]_vars

\* C3 in Level 2 with a number on the ring: a ring placement was just
\* rejected, and both an occupied cell and a non-adjacent board cell are
\* refused.
C3_Witness ==
    /\ last_call = [op |-> "place_on_ring_ui_only", ret |-> "False"]
    /\ level = 2
    /\ \E cell \in BorderCells :
        /\ ring[cell[1]][cell[2]] # 0
        /\ ~place_on_ring_ui_only(Self, cell[1], cell[2], 5).ret
    /\ ~make_move_level1(Self, 0, 0, 26).ret

\* C4: an accepted placement one row and one column away from the cell of
\* the maximum adds exactly 1 to the score, and an accepted placement in the
\* same row or column adds nothing.
C4_DiagonalStepScoresOne ==
    \A cell \in BoardCells :
        LET res == make_move_level1(Self, cell[1], cell[2], BoardMax(board) + 1)
            prev == CellOf(BoardMax(board))
            dr == Dist(cell[1], prev[1])
            dc == Dist(cell[2], prev[2])
        IN  res.ret =>
                /\ dr = 1 /\ dc = 1 => res.self.score = score + 1
                /\ (dr = 0 /\ dc = 1) \/ (dr = 1 /\ dc = 0)
                        => res.self.score = score
                /\ res.self.score \in {score, score + 1}

\* C4 after a diagonal placement was accepted: the score is one above the
\* score before it, and an orthogonal placement is possible next.
C4_Witness ==
    /\ last_call = [op |-> "make_move_level1", ret |-> "True"]
    /\ Len(move_history) >= 2
    /\ score = move_history[Len(move_history) - 1][2].score + 1
    /\ \E cell \in BoardCells :
        /\ make_move_level1(Self, cell[1], cell[2], BoardMax(board) + 1).ret
        /\ Dist(cell[1], CellOf(BoardMax(board))[1]) = 0

\* The elements of a list.
Elements(list) == {list[i] : i \in 1 .. Len(list)}

\* The ring corner a cell of the board has: its own corner of the grid when
\* the cell is a corner of the board, none otherwise.
CornerOf(p) ==
    IF p = <<0, 0>> THEN {<<0, 0>>}
    ELSE IF p = <<0, 4>> THEN {<<0, 6>>}
    ELSE IF p = <<4, 0>> THEN {<<6, 0>>}
    ELSE IF p = <<4, 4>> THEN {<<6, 6>>}
    ELSE {}

\* The candidates the specification gives the number at board cell p on
\* the ring rg.
Candidates(rg, p) ==
    {q \in {<<0, p[2] + 1>>, <<6, p[2] + 1>>, <<p[1] + 1, 0>>, <<p[1] + 1, 6>>}
            \cup CornerOf(p) :
        rg[q[1]][q[2]] = 0}

\* The ring contents the computation is tried on: the ring as it is, and
\* the ring with any one border cell more occupied.
RingsTried ==
    {ring} \cup {[ring EXCEPT ![q[1]][q[2]] = 25] :
                    q \in {b \in GridCells : b[1] \in {0, 6} \/ b[2] \in {0, 6}}}

\* C5: for every number n of 2 .. 25 on the board, at (r, c), and every ring
\* content, the computed candidates are the empty ones among (0, c+1),
\* (6, c+1), (r+1, 0), (r+1, 6) and the ring corner matching (r, c) when
\* (r, c) is a board corner, each listed once.
C5_CandidatesOfNumber ==
    \A top \in {BoardMax(board)} : \A rg \in RingsTried :
        \A n \in 2 .. top : \A at \in {CellOf(n)} :
            \A list \in {_get_available_positions_for_number(
                            [Self EXCEPT !.ring = rg], n)} :
                /\ Elements(list) = Candidates(rg, at)
                /\ Len(list) = Cardinality(Elements(list))

\* C5 in Level 2 after an accepted ring placement: 13 at the centre has its
\* four edge cells and no corner, 5 at the board corner (0, 4) has its ring
\* corner, and some number has lost a candidate to the placement.
C5_Witness ==
    /\ last_call = [op |-> "place_on_ring_ui_only", ret |-> "True"]
    /\ board[2][2] = 13 /\ board[0][4] = 5
    /\ Elements(_get_available_positions_for_number(Self, 13))
            = {<<0, 3>>, <<6, 3>>, <<3, 0>>, <<3, 6>>}
    /\ <<0, 6>> \in Elements(_get_available_positions_for_number(Self, 5))
    /\ \E n \in 2 .. 25 : Len(_get_available_positions_for_number(Self, n)) < 4

\* C6 as stated: with number 1 on board cell (0, 0) and an empty ring, the
\* candidates computed for number 1 include (0, 1), (6, 1), (1, 0), (1, 6)
\* and the corner (0, 0).
C6_SeedAtCornerHasCandidates ==
    board[0][0] = 1 /\ ring = EmptyRing
        => {<<0, 1>>, <<6, 1>>, <<1, 0>>, <<1, 6>>, <<0, 0>>}
                \subseteq Elements(_get_available_positions_for_number(Self, 1))

\* C6, amended: number 1 has no candidates and no entry in the eligibility
\* map, wherever it is; the candidates (0, 1), (6, 1), (1, 0), (1, 6) and the
\* corner (0, 0) are those of a number of 2 .. 25 on board cell (0, 0) while
\* the ring is empty.
C6_SeedHasNoCandidates ==
    /\ _get_available_positions_for_number(Self, 1) = <<>>
    /\ \A k \in DOMAIN level2_available_positions : k[2] # 1
    /\ \A n \in 2 .. 25 :
        board[0][0] = n /\ ring = EmptyRing
            => Elements(_get_available_positions_for_number(Self, n))
                    = {<<0, 1>>, <<6, 1>>, <<1, 0>>, <<1, 6>>, <<0, 0>>}

\* C6 at the start of Level 2 of a game whose number 1 is on board cell
\* (0, 0): the map was just computed on the empty ring.
C6_Witness ==
    /\ last_call = [op |-> "start_level2", ret |-> "None"]
    /\ board[0][0] = 1
    /\ ring = EmptyRing
    /\ level2_available_positions # EmptyDict

\* Cells one step outside the 7x7 grid.
OffGrid == {<<-1, 0>>, <<7, 6>>, <<0, -1>>, <<6, 7>>}

\* The cells a ring placement is tried on: the border of the grid, two cells
\* inside it and the cells just outside.
RingTriedCells ==
    {q \in GridCells : q[1] \in {0, 6} \/ q[2] \in {0, 6}}
        \cup {<<1, 1>>, <<3, 3>>} \cup OffGrid

\* The values a ring placement is tried with: those of the exploration and
\* a number it never places.
RingTried == RingValues \cup {3}

\* C7: a ring placement is accepted exactly when the cell is on the 7x7
\* grid, on its border and empty, the value is in 2 .. 25 and nowhere on the
\* ring, and the cell is in the stored eligibility entry of the value.
C7_RingAcceptedIffLegal ==
    \A cell \in RingTriedCells : \A value \in RingTried :
        place_on_ring_ui_only(Self, cell[1], cell[2], value).ret
            <=> /\ cell \in GridCells
                /\ cell[1] \in {0, 6} \/ cell[2] \in {0, 6}
                /\ ring[cell[1]][cell[2]] = 0
                /\ value \in 2 .. 25
                /\ \A q \in GridCells : ring[q[1]][q[2]] # value
                /\ \E k \in DOMAIN level2_available_positions :
                        /\ k[2] = value
                        /\ InList(cell, level2_available_positions[k])

\* C7 after an accepted ring placement: 2 is on the ring and is refused on
\* another of its cells, while 5 is still accepted on its corner.
C7_Witness ==
    /\ last_call = [op |-> "place_on_ring_ui_only", ret |-> "True"]
    /\ ring[0][2] = 2
    /\ ~place_on_ring_ui_only(Self, 6, 2, 2).ret
    /\ place_on_ring_ui_only(Self, 0, 6, 5).ret

\* The cells of the 7x7 grid holding a value.
RingFilled == {q \in GridCells : ring[q[1]][q[2]] # 0}

\* C8: no value is on two cells of the ring, every value on it is in
\* 2 .. 25, and the cells off the border are 0.
C8_RingValuesUnique ==
    /\ Cardinality({ring[q[1]][q[2]] : q \in RingFilled}) = Cardinality(RingFilled)
    /\ \A q \in RingFilled :
        /\ ring[q[1]][q[2]] \in 2 .. 25
        /\ q[1] \in {0, 6} \/ q[2] \in {0, 6}

\* C8 with two numbers on the ring, one of them on a corner.
C8_Witness ==
    /\ last_call = [op |-> "place_on_ring_ui_only", ret |-> "True"]
    /\ Cardinality(RingFilled) >= 2
    /\ ring[0][6] = 5

\* The object after k calls of undo_last_move in a row, and whether all of
\* them returned true.
RECURSIVE Undos(_, _)
Undos(s, k) ==
    IF k = 0 THEN [self |-> s, all |-> TRUE]
    ELSE LET res == undo_last_move(s)
         IN  IF res.ret THEN Undos(res.self, k - 1)
             ELSE [self |-> res.self, all |-> FALSE]

\* C9: undo returns true exactly when can_undo was true, which is when the
\* history holds at least 2 entries; with n + 1 entries in the history (one
\* baseline and n accepted placements) exactly n undo calls in a row return
\* true, and the calls after them return false and change nothing.
C9_UndoSucceedsPerEntry ==
    /\ undo_last_move(Self).ret = can_undo(Self)
    /\ can_undo(Self) = (Len(move_history) >= 2)
    /\ \A run \in {Undos(Self, Len(move_history) - 1)} :
        /\ run.all
        /\ \A next \in {undo_last_move(run.self)} :
            /\ ~next.ret
            /\ next.self = run.self
            /\ undo_last_move(next.self) = [self |-> run.self, ret |-> FALSE]

\* C9 after placements were undone down to the baseline: the last undo
\* returned true, one entry is left, and the next undo is refused.
C9_Witness ==
    /\ last_call = [op |-> "undo_last_move", ret |-> "True"]
    /\ Len(move_history) = 1
    /\ correct_moves = 0
    /\ ~undo_last_move(Self).ret

\* What an undone placement must bring back.
Restored(s) ==
    <<s.board, s.ring, s.score, s.level, s.correct_moves,
      s.level2_available_positions>>

\* C10: whenever a placement of either level is accepted and undo is called
\* next, undo returns true and board, ring, score, level, correct-move
\* counter and eligibility map are what they were before the placement.
C10_UndoRestoresPlacement ==
    /\ \A cell \in BoardCells :
        \A res \in {make_move_level1(Self, cell[1], cell[2], BoardMax(board) + 1)} :
            res.ret => \A undone \in {undo_last_move(res.self)} :
                /\ undone.ret
                /\ Restored(undone.self) = Restored(Self)
    /\ \A cell \in BorderCells : \A value \in RingValues :
        \A res \in {place_on_ring_ui_only(Self, cell[1], cell[2], value)} :
            res.ret => \A undone \in {undo_last_move(res.self)} :
                /\ undone.ret
                /\ Restored(undone.self) = Restored(Self)

\* The tags of the history entries.
Tags(history) == {history[i][1] : i \in 1 .. Len(history)}

\* C11: in Level 2 (entered by start_level2 and continued by ring
\* placements, clear_ring and undo only) the board holds 25 values and is the
\* board Level 1 was completed with, every snapshot of the history is of
\* Level 2 with that board, and any number of undo calls in a row leaves
\* level 2 and that board.
C11_UndoStaysInLevel2 ==
    level = 2 =>
        /\ level1_completed
        /\ Cardinality(Filled) = 25
        /\ board = level1_snapshot[1].board
        /\ \A i \in 1 .. Len(move_history) :
            /\ move_history[i][2].level = 2
            /\ move_history[i][2].board = board
        /\ \A k \in 1 .. Len(move_history) + 1 :
            \A run \in {Undos(Self, k)} :
                run.self.level = 2 /\ run.self.board = board

\* C11 after a ring was cleared, a number placed and the placement undone:
\* the undo returned true in Level 2 and the clearing is still in the history.
C11_Witness ==
    /\ last_call = [op |-> "undo_last_move", ret |-> "True"]
    /\ level = 2
    /\ "clear_ring" \in Tags(move_history)
    /\ Cardinality(Filled) = 25

\* The operations that start a game, a board or a level afresh.
Reseeding ==
    {"reset_new_game_level1", "clear_level1_keep_one",
     "clear_level1_random_one", "start_level2"}

\* C12: right after new game, either clearing of the board, and the start of
\* Level 2, the history holds exactly one entry, the entry is the snapshot of
\* the state the operation produced, and undo returns false and changes
\* nothing.
C12_ReseededHistory ==
    last_call.op \in Reseeding =>
        /\ Len(move_history) = 1
        /\ move_history[1][2] = _snapshot_state(Self)
        /\ undo_last_move(Self) = [self |-> Self, ret |-> FALSE]

\* C12 after a board with placements on it was cleared and reseeded at
\* random.
C12_Witness ==
    /\ last_call.op = "clear_level1_random_one"
    /\ correct_moves >= 1
    /\ Cardinality(Filled) = 1
    /\ Len(move_history) = 1

\* C13: right after clear_ring the history holds exactly one entry, the
\* baseline of the cleared ring, so that undo returns false and the ring
\* stays cleared.
C13_ClearRingReseedsHistory ==
    last_call.op = "clear_ring" =>
        /\ Len(move_history) = 1
        /\ move_history[1][2] = _snapshot_state(Self)
        /\ \A undone \in {undo_last_move(Self)} :
            ~undone.ret /\ undone.self.ring = EmptyRing

\* C14: the history never holds more than 50 entries; a push on a history of
\* 50 entries drops the oldest entry, keeps the other 49 in their order and
\* appends the new one (a push on a shorter history only appends); with 50
\* entries 49 undo calls in a row succeed, and never 50.
C14_HistoryCapacity ==
    /\ Len(move_history) <= MAX_UNDO_HISTORY
    /\ \A pushed \in {_save_to_history(Self, "pushed").move_history} :
        /\ pushed[Len(pushed)] = <<"pushed", _snapshot_state(Self)>>
        /\ IF Len(move_history) = MAX_UNDO_HISTORY
           THEN /\ Len(pushed) = MAX_UNDO_HISTORY
                /\ SubSeq(pushed, 1, MAX_UNDO_HISTORY - 1) = Tail(move_history)
           ELSE SubSeq(pushed, 1, Len(pushed) - 1) = move_history
    /\ level = 2 =>
            Len(clear_ring(Self).move_history)
                = IF Len(move_history) = MAX_UNDO_HISTORY
                  THEN MAX_UNDO_HISTORY ELSE Len(move_history) + 1
    /\ ~Undos(Self, MAX_UNDO_HISTORY).all
    /\ Len(move_history) = MAX_UNDO_HISTORY
            => Undos(Self, MAX_UNDO_HISTORY - 1).all

\* C14 with a full history whose baseline of Level 2 was dropped by a push.
C14_Witness ==
    /\ last_call.op = "clear_ring"
    /\ Len(move_history) = MAX_UNDO_HISTORY
    /\ "level2_initial" \notin Tags(move_history)
    /\ move_history[1][2].correct_moves >= 1

\* The elapsed times the scoring is tried with, in hundredths of a second:
\* around half a second, halfway between two seconds, around the default
\* limit and over it.
TriedElapsed == {0, 49, 50, 51, 150, 250, 5949, 6000, 6051, 6150}

\* The levels the scoring is tried with: those with a default limit and one
\* without an entry.
TriedLevels == 1 .. 4

\* r is a whole number of seconds nearest to the time.
Nearest(hundredths, r) == Abs(hundredths - 100 * r) <= 50

\* C15: time scoring of a level without a configured limit returns 0 and
\* leaves the score; with the limit L it returns L minus the elapsed time
\* rounded to a nearest whole second, adds exactly that to the score (which
\* may go below 0) and records it as the last delta.
C15_TimeScoring ==
    \A lvl \in TriedLevels : \A limit \in {DictGet(time_limits, IntKey(lvl), None)} :
        \A elapsed \in TriedElapsed :
            \A res \in {apply_time_scoring(Self, lvl, elapsed)} :
                IF limit = None
                THEN res.ret = 0 /\ res.self.score = score
                ELSE /\ \E r \in {limit[1] - res.ret} : Nearest(elapsed, r)
                     /\ res.self.score = score + res.ret
                     /\ res.self.time_bonus_last = res.ret

\* C15 after Level 1 was completed over its limit: the delta applied is
\* negative and took the score below 0; Level 3 has its limit and Level 4
\* none.
C15_Witness ==
    /\ last_call.op = "on_place"
    /\ last_call.ret \in {"completed", "personal best"}
    /\ time_bonus_last < 0
    /\ score = time_bonus_last
    /\ apply_time_scoring(Self, 3, 150).ret = 58
    /\ apply_time_scoring(Self, 4, 150).ret = 0

\* The times of the records of a player at a level in a completions file.
PriorTimes(players, name, lvl) ==
    IF name \notin DOMAIN players THEN {}
    ELSE {players[name][i].CompletionSeconds :
            i \in {j \in 1 .. Len(players[name]) :
                        players[name][j].GameLevel = lvl}}

\* A completions file holding only the records of one player at one level.
OnlyOf(players, name, lvl) ==
    [n \in DOMAIN players \cap {name} |->
        SelectSeq(players[n], LAMBDA game : game.GameLevel = lvl)]

\* The players and times the test is tried with: the two players of the
\* session and one without records; times below, at and above the recorded
\* ones.
TriedNames == Names \cup {"cat"}

TriedTimes == {99, 100, 149, 150, 151, 250}

\* C16: a time is a personal best exactly when the player has a record at
\* that level and the time is strictly below every such record (so never at
\* the first completion of a level and never on a tie); the records of other
\* players and levels do not matter.  on_place announces a personal best
\* exactly in that case.
C16_PersonalBest ==
    /\ \A name \in TriedNames : \A lvl \in 1 .. 2 :
        \A prior \in {PriorTimes(completed_games, name, lvl)} :
            \A elapsed \in TriedTimes :
                \A best \in {is_personal_best(completed_games, name, elapsed, lvl)} :
                    /\ best <=> prior # {} /\ \A t \in prior : elapsed < t
                    /\ best = is_personal_best(
                                OnlyOf(completed_games, name, lvl),
                                name, elapsed, lvl)
    /\ last_call.op = "on_place" /\ last_call.ret \in {"completed", "personal best"}
        => \A games \in {completed_games[player_name[1]]} :
            \A before \in {PriorTimes(
                    [n \in {player_name[1]} |-> SubSeq(games, 1, Len(games) - 1)],
                    player_name[1], 1)} :
                last_call.ret = "personal best"
                    <=> /\ before # {}
                        /\ \A t \in before : games[Len(games)].CompletionSeconds < t

\* C16 after ann completed Level 1 in 1.5 s with earlier records of 2.5 s at
\* Level 1 and of 1 s at Level 2: a personal best was announced, and the same
\* time again would be none.
C16_Witness ==
    /\ last_call = [op |-> "on_place", ret |-> "personal best"]
    /\ player_name = Some("ann")
    /\ PriorTimes(completed_games, "ann", 1) = {150, 250}
    /\ 100 \in PriorTimes(completed_games, "ann", 2)
    /\ ~is_personal_best(completed_games, "ann", 150, 1)

\* The player names the record is tried with: the one of the object, none,
\* the empty one and a proper one.
TriedPlayers == {player_name, None, Some(""), Some("ann")}

\* C19: building a completion record without a player name (absent or
\* empty) raises and returns no record; with a name it returns a record of
\* the name, the elapsed time, the current level, score, correct and invalid
\* counts, the time limit of the current level, the last time delta, the
\* board and the ring.
C19_CompletionRecord ==
    \A name \in TriedPlayers : \A elapsed \in ElapsedTimes :
        \A res \in {build_completion_data([Self EXCEPT !.player_name = name],
                                          elapsed, Now)} :
            IF name = None \/ name = Some("")
            THEN res.raised /\ res.ret = None
            ELSE /\ ~res.raised
                 /\ res.ret # None
                 /\ \A record \in {res.ret[1]} :
                    /\ record.Name = name[1]
                    /\ record.CompletionSeconds = elapsed
                    /\ record.GameLevel = level
                    /\ record.Score = score
                    /\ record.CorrectMoves = correct_moves
                    /\ record.InvalidMoves = invalid_moves
                    /\ record.TimeLimit = DictGet(time_limits, IntKey(level), None)
                    /\ record.TimeScoreDelta = time_bonus_last
                    /\ record.Board = board
                    /\ record.Ring = ring

\* C19 on a completed board whose player gave no name: the call just made
\* raised, and the invalid-move counter it would have recorded is not 0.
C19_Witness ==
    /\ last_call = [op |-> "build_completion_data", ret |-> "ValueError"]
    /\ player_name = None
    /\ Cardinality(Filled) = 25
    /\ invalid_moves >= 1

\* C17: set_state(get_state()) leaves every field of the object, the
\* history among them, as it was.
C17_SetGetStateIsIdentity ==
    /\ set_state(Self, get_state(Self)) = Self
    /\ _restore_snapshot(LogicInit, get_state(Self))
            = [Self EXCEPT !.move_history = <<>>]

\* C17 in Level 2 with a number on the ring and an undoable placement, right
\* after set_state(get_state()).
C17_Witness ==
    /\ last_call.op = "set_state(get_state())"
    /\ level = 2
    /\ ring # EmptyRing
    /\ Len(move_history) >= 2

\* The object after the live state was saved to the file and loaded from it.
SavedAndLoaded ==
    set_state(Self, load_game(save_game(get_state(Self))).ret)

\* C18: a Level-2 state saved to the file and loaded from it has the
\* eligibility map it had before, and every ring placement accepted before
\* the save is accepted after the load.
C18_SaveLoadKeepsEligibility ==
    level = 2 =>
        \A loaded \in {SavedAndLoaded} :
            /\ loaded.level2_available_positions = level2_available_positions
            /\ \A cell \in BorderCells : \A value \in PersistRingValues :
                place_on_ring_ui_only(Self, cell[1], cell[2], value).ret
                    => place_on_ring_ui_only(loaded, cell[1], cell[2], value).ret

\* C20: with the save file missing or not readable as a document, load_game
\* returns None and does not raise, and the load leaves the object as it was.
C20_UnreadableFileIsNoSave ==
    /\ saved_file = None \/ IsMalformed(saved_file)
        => load_game(saved_file) = [raised |-> FALSE, ret |-> None]
    /\ last_call.op = "load_game" => last_call.ret = "None"

\* C22: while level = 2 the board is frozen: every make_move_level1 call is
\* rejected, and place_on_ring_ui_only, undo_last_move and clear_ring leave
\* every cell of the board as it is.
C22_BoardFrozenInLevel2 ==
    level = 2 =>
        /\ \A cell \in MoveCells : \A value \in TriedValues(BoardMax(board)) :
            ~make_move_level1(Self, cell[1], cell[2], value).ret
        /\ \A cell \in RingTriedCells : \A value \in RingTried :
            place_on_ring_ui_only(Self, cell[1], cell[2], value).self.board = board
        /\ undo_last_move(Self).self.board = board
        /\ clear_ring(Self).board = board

\* C23: in Level 2 the stored eligibility map is the map computed afresh
\* from the board and the ring as they are: it has an entry for each number
\* of 2 .. 25 and no other, and every candidate stored is an empty cell of
\* the border.
C23_StoredMapIsFresh ==
    level = 2 =>
        /\ level2_available_positions
                = _calculate_all_available_positions(Self).level2_available_positions
        /\ DOMAIN level2_available_positions = {IntKey(n) : n \in 2 .. 25}
        /\ \A k \in DOMAIN level2_available_positions :
            \A q \in Elements(level2_available_positions[k]) :
                q \in BorderCells /\ ring[q[1]][q[2]] = 0

\* C23 after two ring placements and an undo of the second: one number is
\* on the ring, and the stored entry of 5 has lost the cell it occupies.
C23_Witness ==
    /\ last_call = [op |-> "undo_last_move", ret |-> "True"]
    /\ level = 2
    /\ Cardinality(RingFilled) = 1
    /\ \E k \in DOMAIN level2_available_positions :
        k[2] = 5 /\ Len(level2_available_positions[k]) < 5

OnlySeedAt(p) == [EmptyBoard EXCEPT ![p[1]][p[2]] = 1]

\* C26: clear_level1_keep_one leaves the 1 in the cell it was in and empties
\* every other cell of the board, whatever random.randint returns;
\* clear_level1_random_one leaves a board whose only value is a 1; both set
\* the score to 0, the level to 1 and empty the ring.
C26_ClearBoard ==
    \A seed \in BoardCells :
        /\ \A kept \in {clear_level1_keep_one(Self, seed[1], seed[2])} :
            /\ kept.board = OnlySeedAt(CellOf(1))
            /\ kept.score = 0 /\ kept.level = 1 /\ kept.ring = EmptyRing
        /\ \A random \in {clear_level1_random_one(Self, seed[1], seed[2])} :
            /\ \E p \in BoardCells : random.board = OnlySeedAt(p)
            /\ random.score = 0 /\ random.level = 1 /\ random.ring = EmptyRing

\* C26 right after a board with placements on it was cleared keeping the
\* 1, which is not on the cell random.randint would have given first.
C26_Witness ==
    /\ last_call.op = "clear_level1_keep_one"
    /\ correct_moves >= 1
    /\ board = OnlySeedAt(<<1, 2>>)
    /\ score = 0 /\ level = 1 /\ ring = EmptyRing

\* C30: for every k from 2 to the board's maximum, the cell holding k is at
\* Chebyshev distance exactly 1 from the cell holding k - 1, in Level 1 and
\* on the frozen board of Level 2; and every placement accepted next lands
\* at distance 1 from the cell of the maximum.
C30_KingMovePath ==
    /\ \A k \in 2 .. BoardMax(board) : Chebyshev(CellOf(k), CellOf(k - 1)) = 1
    /\ \A cell \in BoardCells :
        make_move_level1(Self, cell[1], cell[2], BoardMax(board) + 1).ret
            => Chebyshev(cell, CellOf(BoardMax(board))) = 1

\* C30 in Level 2 after a ring placement: the frozen board holds the whole
\* path 1 .. 25.
C30_Witness ==
    /\ last_call = [op |-> "place_on_ring_ui_only", ret |-> "True"]
    /\ level = 2
    /\ BoardMax(board) = 25
    /\ Chebyshev(CellOf(25), CellOf(24)) = 1
    /\ Chebyshev(CellOf(6), CellOf(5)) = 1

\* C21: once the player name is set to a non-empty value, no operation
\* changes or unsets it.
C21_NameIsKept ==
    [][~NoName(player_name) => player_name' = player_name]_vars

\* The numbers 2..25 that stand on the border of the ring exactly once.
OnRingOnce(self) ==
    {n \in 2 .. 25 :
        Cardinality({p \in BorderCells : self.ring[p[1]][p[2]] = n}) = 1}

\* C25: in every Level-2 state the completion predicate (24 non-zero border
\* cells) is true if and only if every number 2..25 stands on the ring
\* exactly once.
C25_CompleteIffAllNumbersOnce ==
    level = 2 => (is_level2_complete(Self) <=> OnRingOnce(Self) = 2 .. 25)

\* The ring has just been completed by a placement at the window.
C25_Witness ==
    /\ level = 2
    /\ is_level2_complete(Self)
    /\ OnRingOnce(Self) = 2 .. 25
    /\ last_call = [op |-> "on_place", ret |-> "completed"]

\* C27: a timer tick that fires in any state changes no field of the game
\* state and no history entry; at most one tick is pending, it is the one
\* held in _timer_job, and starting a level timer leaves exactly one.
C27_TickLeavesStateOneTickPending ==
    /\ \A id \in after_jobs :
        _tick_timer(Self, [Tk EXCEPT !.pending = @ \ {id}]).self = Self
    /\ Cardinality(after_jobs) <= 1
    /\ after_jobs = IF _timer_job = None THEN {} ELSE {_timer_job[1]}
    /\ Cardinality(_start_level_timer(Self, Tk).pending) = 1

\* A tick has fired in Level 2 after a ring placement, and the next one is
\* pending.
C27_Witness ==
    /\ level = 2
    /\ _timer_job = Some(2)
    /\ after_jobs = {2}
    /\ Len(move_history) > 1
    /\ last_call = [op |-> "on_place", ret |-> "placed"]

\* C28: after a placement that completes its level no tick is pending,
\* whether or not the player then gives a name, unless the timer of the next
\* level has been started.
C28_CompletionCancelsTick ==
    /\ last_call.op = "on_place"
    /\ \/ level = 1 /\ is_level1_complete(Self)
       \/ level = 2 /\ is_level2_complete(Self)
    => after_jobs = {}

\* What on_place comes to in the current state with the cell of its area
\* selected and value entered.
Placed(area, cell, value, answer) ==
    on_place(Self, Tk, completed_games, area, cell[1], cell[2], value, answer,
             GuiElapsed, Now)

\* The history of after is that of the current state and one entry more,
\* tagged tag, which holds the state after the placement.
OneEntryMore(after, tag) ==
    /\ Len(after.move_history) = Len(move_history) + 1
    /\ SubSeq(after.move_history, 1, Len(move_history)) = move_history
    /\ after.move_history[Len(after.move_history)][1] = tag

\* What the name dialog may end with; it is shown only at a completion.
NameGiven ==
    IF Completing THEN {None} \cup {Some(n) : n \in GuiNames} ELSE {None}

\* The last record of name in the completions file.
LastRecord(players, name) == players[name][Len(players[name])]

\* C29: at the window every rejected Level-1 attempt (a value that is not
\* the next one, or the next value on a cell that is occupied or not
\* adjacent) adds exactly 1 to the invalid-move counter, pushes no history
\* entry and changes nothing else; every accepted placement adds exactly 1
\* to the correct-move counter, leaves the invalid-move counter and pushes
\* exactly one history entry, tagged "move" in Level 1 and "ring_move" in
\* Level 2.  The placement that completes Level 1 is followed in the same
\* handler by the start of Level 2; its counters are those of the record
\* written before.
C29_PlacementsAreCounted ==
    /\ level = 1 =>
        \A cell \in BoardCells,
           value \in {get_next_number(Self), get_next_number(Self) + 1, 1},
           answer \in NameGiven :
            \A res \in {Placed("inner", cell, value, answer)} :
                /\ res.ret \in {"invalid", "placed", "no name", "completed",
                                "personal best"}
                /\ res.ret = "invalid"
                    <=> \/ value # get_next_number(Self)
                        \/ ~make_move_level1(Self, cell[1], cell[2], value).ret
                /\ res.ret = "invalid" =>
                    /\ res.self = [Self EXCEPT !.invalid_moves = @ + 1]
                    /\ res.tk = Tk
                    /\ res.players = completed_games
                /\ res.ret \in {"placed", "no name"} =>
                    /\ res.self.correct_moves = correct_moves + 1
                    /\ res.self.invalid_moves = invalid_moves
                    /\ OneEntryMore(res.self, "move")
                /\ res.ret \in {"completed", "personal best"} =>
                    \A record \in {LastRecord(res.players,
                                              res.self.player_name[1])} :
                        /\ record.CorrectMoves = correct_moves + 1
                        /\ record.InvalidMoves = invalid_moves
    /\ level = 2 =>
        \A cell \in BorderCells, value \in {NextOuter(Self), 25},
           answer \in NameGiven :
            \A res \in {Placed("ring", cell, value, answer)} :
                res.ret \in {"placed", "no name", "completed",
                             "personal best"} =>
                    /\ res.self.correct_moves = correct_moves + 1
                    /\ res.self.invalid_moves = invalid_moves
                    /\ OneEntryMore(res.self, "ring_move")

\* C29 after a rejected attempt near the end of Level 1: the counter of
\* invalid moves is 1, and the history and the counter of correct moves are
\* those of the placements made.
C29_Witness ==
    /\ level = 1
    /\ last_call = [op |-> "on_place", ret |-> "invalid"]
    /\ invalid_moves = 1
    /\ correct_moves = BoardMax(board) - 1
    /\ Len(move_history) = BoardMax(board)
    /\ BoardMax(board) >= 24

\* The ring cells that are legal for the number at board cell p: the ends
\* of its column and of its row, and the matching corner of a board corner.
LegalFor(p) ==
    {<<0, p[2] + 1>>, <<6, p[2] + 1>>, <<p[1] + 1, 0>>, <<p[1] + 1, 6>>}
        \cup CornerOf(p)

\* C31: in every Level-2 state every non-zero ring cell holds a value of the
\* board and is an end of the column or of the row of that value's board
\* cell, or the ring corner that matches its board corner.
C31_RingCellsAreLegal ==
    level = 2 =>
        \A q \in GridCells :
            ring[q[1]][q[2]] # 0 =>
                /\ find_position(Self, ring[q[1]][q[2]]) # None
                /\ q \in LegalFor(find_position(Self, ring[q[1]][q[2]]))

\* C31 with two numbers on the ring: the 5 of board corner (0, 4) on ring
\* corner (0, 6), and the 2 of board cell (0, 1) at the lower end of its
\* column.
C31_Witness ==
    /\ level = 2
    /\ board[0][4] = 5 /\ ring[0][6] = 5
    /\ board[0][1] = 2 /\ ring[6][2] = 2
    /\ last_call = [op |-> "place_on_ring_ui_only", ret |-> "True"]

\* The corners of the board.
BoardCorners == {<<0, 0>>, <<0, 4>>, <<4, 0>>, <<4, 4>>}

\* C32: a ring corner holds nothing but the number of the matching board
\* corner; when the 1 is on a board corner, the matching ring corner is
\* empty in every Level-2 state, no call of place_on_ring_ui_only on it is
\* accepted, and the completion predicate of Level 2 is false.
C32_CornerOfOneStaysEmpty ==
    level = 2 =>
        \A p \in BoardCorners : \A q \in CornerOf(p) :
            /\ ring[q[1]][q[2]] # 0 => ring[q[1]][q[2]] = board[p[1]][p[2]]
            /\ board[p[1]][p[2]] = 1 =>
                /\ ring[q[1]][q[2]] = 0
                /\ ~is_level2_complete(Self)
                /\ \A value \in 1 .. 26 :
                    ~place_on_ring_ui_only(Self, q[1], q[2], value).ret

\* C32 in a game whose 1 is on board corner (0, 0): numbers are on the
\* ring, one of them on its corner, and a call that was rejected left ring
\* corner (0, 0) empty.
C32_Witness ==
    /\ level = 2
    /\ board[0][0] = 1
    /\ ring[0][0] = 0
    /\ ring[0][6] = 5
    /\ ring[0][2] = 2
    /\ last_call = [op |-> "place_on_ring_ui_only", ret |-> "False"]

\* The placements on_place may be called with after a load: the next value
\* on every cell of the board, the next free number on every border cell.
PlacementsAfterLoad ==
    IF level = 1
    THEN {make_move_level1(Self, cell[1], cell[2], get_next_number(Self)) :
            cell \in BoardCells}
    ELSE {place_on_ring_ui_only(Self, cell[1], cell[2], NextOuter(Self)) :
            cell \in BorderCells}

\* C33: right after a load the history holds no snapshot taken before the
\* load: undo returns false; after one accepted placement one undo gives
\* back the board, ring, level and score of the loaded state; and no
\* snapshot of Level 1 lies under a loaded Level-2 state.
C33_LoadBeginsHistory ==
    last_call = [op |-> "on_load", ret |-> "loaded"] =>
        /\ ~undo_last_move(Self).ret
        /\ \A res \in PlacementsAfterLoad :
            res.ret =>
                \A undone \in {undo_last_move(res.self).self} :
                    /\ undone.board = board
                    /\ undone.ring = ring
                    /\ undone.level = level
                    /\ undone.score = score
        /\ level = 2 =>
            \A i \in 1 .. Len(move_history) : move_history[i][2].level = 2

\* The snapshot on top of the history.
TopSnapshot == move_history[Len(move_history)][2]

\* C34: the snapshot on top of the history has the board, ring, level and
\* score of the live state, so that a successful undo takes back no change
\* of the score but that of the undone placement.
C34_TopSnapshotIsLive ==
    /\ Len(move_history) >= 1
    /\ TopSnapshot.board = board
    /\ TopSnapshot.ring = ring
    /\ TopSnapshot.level = level
    /\ TopSnapshot.score = score

\* C35: the counter of correct moves is the number of values the player
\* placed that are on the active grid: the largest value of the board less
\* 1 in Level 1, the number of non-zero ring cells in Level 2.
C35_CorrectMovesCountPlaced ==
    /\ level = 1 => correct_moves = BoardMax(board) - 1
    /\ level = 2 =>
        correct_moves = Cardinality({q \in GridCells : ring[q[1]][q[2]] # 0})

\* C36: within one level no operation lowers the counter of invalid moves:
\* every step that is not a new game and does not start Level 2 leaves it
\* or raises it.
C36_InvalidMovesNeverDecrease ==
    [][last_call'.op # "new_game_level1" /\ level' = level
            => invalid_moves' >= invalid_moves]_vars

\* C37: undo leaves the time limits of the levels and the last time-scoring
\* delta as they were before it, also when a limit was set after the
\* snapshot that is restored was taken.
C37_UndoLeavesTimeLimits ==
    [][last_call'.op = "undo_last_move"
            => /\ time_limits' = time_limits
               /\ time_bonus_last' = time_bonus_last]_vars

\* Some call of make_move_level1 would be accepted.
SomePlacementAccepted ==
    \E cell \in BoardCells, value \in 1 .. 26 :
        make_move_level1(Self, cell[1], cell[2], value).ret

\* C38: in Level 1 with the board not complete a step is enabled: some
\* placement would be accepted or undo would return true; and the history
\* holds as many entries as the largest value of the board.
C38_Level1NeverDeadlocks ==
    level = 1 /\ ~is_level1_complete(Self) =>
        /\ SomePlacementAccepted \/ undo_last_move(Self).ret
        /\ Len(move_history) = BoardMax(board)

\* C38 with the path shut in on the corner (0, 0): no placement would be
\* accepted, and undo would return true.
C38_Witness ==
    /\ level = 1
    /\ board[0][0] = 4
    /\ ~SomePlacementAccepted
    /\ undo_last_move(Self).ret
    /\ last_call = [op |-> "make_move_level1", ret |-> "True"]
====
